---- MODULE Spec2Model ----
(***************************************************************************)
(* State-machine model of the recording-angel websocket service:           *)
(*   - the Session Registry (app/services/session_manager.py),             *)
(*   - the Transcription Bridge and the Translator's per-session dedup     *)
(*     state (app/services/assemblyai.py, app/routers/websocket.py),       *)
(*   - the Paragraph Refiner's cooldown (app/services/ai_providers.py).    *)
(* Python dicts are functions whose DOMAIN is the set of keys present.     *)
(* Every coroutine is cut at its await points: one action is the code      *)
(* that runs between two suspensions of the asyncio event loop.            *)
(***************************************************************************)
EXTENDS Integers, Sequences, FiniteSets, TLC

\* ------------------------------------------------------------------ bounds
NumSessions == 1
NumConns == 3
NumBufConns == 1
NumTimers == 2
MaxBufLen == 3
NumBridgeSessions == 2
NumClients == 2
NumProviders == 2
NumLoneClients == 1
NumLoneProviders == 1
NumLoneSessions == 1
NumTasks == 1
MaxClock == 1
MaxFragments == 3
NumTurnTasks == 2
MaxSent == 3
NumRefines == 2
NumLoneRefines == 1
NumLookups == 2
NumNewKeys == 2
MaxRequests == 2
\* words of a text handed to a text helper
MaxJudgedWords == 3

Sessions == 1..NumSessions
Conns == 1..NumConns
\* the broadcast_to_session calls in flight: one at a time
Broadcasts == {1}
BufConns == 1..NumBufConns
Timers == 1..NumTimers
BridgeSessions == 1..NumBridgeSessions
Clients == 1..NumClients
Providers == 1..NumProviders
Tasks == 1..NumTasks
TurnTasks == 1..NumTurnTasks
LoneClients == 1..NumLoneClients
LoneProviders == 1..NumLoneProviders
LoneSessions == 1..NumLoneSessions
Refines == 1..NumRefines
LoneRefines == 1..NumLoneRefines
Lookups == 1..NumLookups

\* strings are sequences of characters; the fragments callers append
Texts == {<<"a">>, <<"b">>, <<" ", "b">>}
IsSpace(c) == c = " "
\* the fragments whose appends are followed up to the drain that returns them
Fragments == {<<>>, <<"a">>, <<" ", "b">>}

None == 0

VARIABLES
    active_sessions,        \* SessionManager.active_sessions: key -> set of websockets
    session_metadata,       \* SessionManager.session_metadata: key -> metadata
    bc,                     \* one record per broadcast_to_session call in progress
    session_text_buffers,   \* SessionManager.session_text_buffers: key -> str
    session_buffer_timers,  \* SessionManager.session_buffer_timers: key -> task
    translation_buffers,    \* SessionManager.translation_buffers: key -> str
    translation_timers,     \* SessionManager.translation_timers: key -> task
    timerState,             \* each asyncio timer task: new, pending, cancelled, fired
    ended,                  \* history: keys whose last connection left, until the next join
    api_key_configured,     \* config.ASSEMBLYAI_API_KEY is set
    translation_enabled,    \* config.TRANSLATION_ENABLED
    active_connections,     \* assemblyai.active_connections: key -> client websocket
    assembly_sessions,      \* assemblyai.assembly_sessions: key -> provider websocket
    translated_texts,       \* assemblyai.translated_texts: key -> set of normalized texts
    last_translation_times, \* assemblyai.last_translation_times: key -> time
    cl,                     \* each websocket_endpoint call: where it is suspended
    prov,                   \* each provider websocket: unused, open or closed
    inbox,                  \* the message a provider websocket holds for its listener
    lst,                    \* each listen_to_assemblyai task
    task,                   \* each translate_and_broadcast_async task
    clock,                  \* time.time(), in seconds
    drained,                \* what the last clear_*_buffer call returned to its caller
    appended,               \* history: the fragments appended to each buffer since its last drain
    sent,                   \* history: the messages whose send to a client was awaited, in order
    paragraphizer_last_call_at, \* ai_providers.paragraphizer_last_call_at: key -> time
    rf,                     \* each refine_and_broadcast_paragraph call or deferred retry
    refine_called_at,       \* history: key -> start of its latest refinement provider call
    paragraphizer_provider, \* config.PARAGRAPHIZER_PROVIDER
    last_answer,            \* history: the provider's latest answer to each refine request
    translation_requests,   \* history: the translation requests that ran, and what became of them
    translation_done_at,    \* history: key -> when its latest translate_text call returned
    _translation_cache,     \* TranslationServiceV2._translation_cache: its keys, oldest first
    tc,                     \* each translate_text call that awaits its provider
    last_lookup,            \* history: the latest translate_text call and what its lookup found
    translation_results,    \* history: how the translate_text call of each request ended
    _chats,                 \* GeminiTranslateProvider._chats: chat key -> chat session
    gm,                     \* the GeminiTranslateProvider.translate_stream call of each task
    call                    \* history: the latest call of a text helper and what it returned

regVars == <<active_sessions, session_metadata, bc>>
bufVars == <<session_text_buffers, session_buffer_timers, translation_buffers,
             translation_timers, timerState>>
brVars == <<api_key_configured, translation_enabled, active_connections, assembly_sessions,
            translated_texts, last_translation_times, cl, prov, inbox, lst, task, clock>>
rfVars == <<paragraphizer_last_call_at, rf, refine_called_at, paragraphizer_provider,
            last_answer>>
trVars == <<translation_requests, translation_done_at, _translation_cache, tc, last_lookup,
            translation_results>>
chVars == <<_chats, gm>>
extVars == <<drained, appended, sent, rfVars, trVars, chVars, call>>
vars == <<regVars, bufVars, ended, brVars, extVars>>

\* ------------------------------------------------------------ dict helpers
DictSet(d, k, v) == [x \in (DOMAIN d) \cup {k} |-> IF x = k THEN v ELSE d[x]]
DictDel(d, k) == [x \in (DOMAIN d) \ {k} |-> d[x]]
EmptyDict == [x \in {} |-> None]

Range(q) == {q[i] : i \in 1..Len(q)}

\* ----------------------------------------------------------- the registry
\* websockets_to_send is the list the call iterates over, kept as the set of
\* its elements (list(a_set) has no defined order): pending holds the ones
\* the loop has not reached and current the one whose send is awaited
IdleBroadcast ==
    [pc |-> "idle", session_id |-> None, exclude_websocket |-> None,
     websockets_to_send |-> {}, pending |-> {}, current |-> None, disconnected |-> {},
     delivered |-> [w \in Conns |-> 0]]

InitRegistry ==
    /\ active_sessions = EmptyDict
    /\ session_metadata = EmptyDict
    /\ bc = [b \in Broadcasts |-> IdleBroadcast]
    /\ session_text_buffers = EmptyDict
    /\ session_buffer_timers = EmptyDict
    /\ translation_buffers = EmptyDict
    /\ translation_timers = EmptyDict
    /\ timerState = [t \in Timers |-> "new"]
    /\ ended = {}
    /\ drained = [kind |-> "none", session_id |-> None, text |-> <<>>, fragments |-> <<>>]
    /\ appended = [kind \in {"text", "translation"} |-> EmptyDict]

\* a websocket belongs to one session at a time: it joins only while it is
\* in no session's set
Unowned(w) == \A s \in DOMAIN active_sessions : w \notin active_sessions[s]

add_connection(s, w) ==
    /\ Unowned(w)
    /\ IF s \notin DOMAIN active_sessions
       THEN /\ active_sessions' = DictSet(active_sessions, s, {w})
            /\ session_metadata' = DictSet(session_metadata, s, [paragraph_counter |-> 0])
            /\ session_text_buffers' = DictSet(session_text_buffers, s, <<>>)
       ELSE /\ active_sessions' = DictSet(active_sessions, s, active_sessions[s] \cup {w})
            /\ UNCHANGED <<session_metadata, session_text_buffers>>
    /\ UNCHANGED <<bc, session_buffer_timers, translation_buffers, translation_timers,
                   timerState>>

\* task.cancel(): a pending task is cancelled, a finished one is left as it is
Cancel(ts, t) == [ts EXCEPT ![t] = IF ts[t] = "pending" THEN "cancelled" ELSE ts[t]]

\* the timers remove_connection cancels when it deletes session s
CancelSessionTimers(s) ==
    LET ts1 == IF s \in DOMAIN session_buffer_timers
               THEN Cancel(timerState, session_buffer_timers[s]) ELSE timerState
    IN IF s \in DOMAIN translation_timers
       THEN Cancel(ts1, translation_timers[s]) ELSE ts1

remove_connection(s, w) ==
    /\ s \in DOMAIN active_sessions
    /\ IF active_sessions[s] \ {w} = {}
       THEN /\ active_sessions' = DictDel(active_sessions, s)
            /\ session_metadata' = DictDel(session_metadata, s)
            /\ session_text_buffers' = DictDel(session_text_buffers, s)
            /\ session_buffer_timers' = DictDel(session_buffer_timers, s)
            /\ translation_buffers' = DictDel(translation_buffers, s)
            /\ translation_timers' = DictDel(translation_timers, s)
            /\ timerState' = CancelSessionTimers(s)
       ELSE /\ active_sessions' = DictSet(active_sessions, s, active_sessions[s] \ {w})
            /\ UNCHANGED <<session_metadata, bufVars>>
    /\ UNCHANGED bc

\* a clean-up loop that forgets to discard the websockets whose send failed
DiscardNothing(s, disconnected) == active_sessions

\* the loop "for ws in disconnected: active_sessions[session_id].discard(ws)":
\* a KeyError when the key is gone and there is something to discard
DiscardDisconnected(s, disconnected) ==
    IF disconnected = {} THEN active_sessions
    ELSE DictSet(active_sessions, s, active_sessions[s] \ disconnected)

CleanupRaises(s, disconnected) ==
    disconnected # {} /\ s \notin DOMAIN active_sessions

\* "[ws for ws in websockets_to_send if ws != exclude_websocket]"
WithoutExcluded(websockets, ex) == IF ex # None THEN websockets \ {ex} ELSE websockets

\* broadcast_to_session up to its first await: the snapshot, the filter and
\* the first send_json call
BroadcastStart(b, s, ex) ==
    /\ bc[b].pc = "idle"
    /\ IF s \notin DOMAIN active_sessions
       THEN bc' = [bc EXCEPT ![b] = [IdleBroadcast EXCEPT
                      !.pc = "done", !.session_id = s, !.exclude_websocket = ex]]
       ELSE LET to_send == WithoutExcluded(active_sessions[s], ex)
            IN IF to_send = {}
               THEN bc' = [bc EXCEPT ![b] = [IdleBroadcast EXCEPT
                              !.pc = "done", !.session_id = s, !.exclude_websocket = ex]]
               ELSE \E first \in to_send :
                      bc' = [bc EXCEPT ![b] = [IdleBroadcast EXCEPT
                                !.pc = "send", !.session_id = s, !.exclude_websocket = ex,
                                !.websockets_to_send = to_send,
                                !.pending = to_send \ {first}, !.current = first]]
    /\ UNCHANGED <<active_sessions, session_metadata, bufVars, ended>>

\* one "await websocket.send_json(message)" returns (ok) or raises (~ok); the
\* loop goes on to the next websocket, or ends and the clean-up loop runs
BroadcastSend(b, ok) ==
    /\ bc[b].pc = "send"
    /\ LET r == bc[b]
           w == r.current
           dis == IF ok THEN r.disconnected ELSE r.disconnected \cup {w}
           del == IF ok THEN [r.delivered EXCEPT ![w] = @ + 1] ELSE r.delivered
       IN IF r.pending # {}
          THEN /\ \E next \in r.pending :
                     bc' = [bc EXCEPT ![b].pending = r.pending \ {next}, ![b].current = next,
                                      ![b].disconnected = dis, ![b].delivered = del]
               /\ UNCHANGED active_sessions
          ELSE IF CleanupRaises(r.session_id, dis)
          THEN /\ bc' = [bc EXCEPT ![b].pc = "raised", ![b].current = None,
                                   ![b].disconnected = dis, ![b].delivered = del]
               /\ UNCHANGED active_sessions
          ELSE /\ bc' = [bc EXCEPT ![b].pc = "done", ![b].current = None,
                                   ![b].disconnected = dis, ![b].delivered = del]
               /\ active_sessions' = DiscardDisconnected(r.session_id, dis)
    /\ UNCHANGED <<session_metadata, bufVars, ended>>

\* the caller takes the result (a return or the exception) of the call
BroadcastReturn(b) ==
    /\ bc[b].pc \in {"done", "raised"}
    /\ bc' = [bc EXCEPT ![b] = IdleBroadcast]
    /\ UNCHANGED <<active_sessions, session_metadata, bufVars, ended>>

\* ------------------------------------------------------ buffers and timers
Get(d, k, default) == IF k \in DOMAIN d THEN d[k] ELSE default

\* str.strip()
RECURSIVE LStrip(_)
LStrip(t) == IF t # <<>> /\ IsSpace(Head(t)) THEN LStrip(Tail(t)) ELSE t
RECURSIVE RStrip(_)
RStrip(t) ==
    IF t # <<>> /\ IsSpace(t[Len(t)]) THEN RStrip(SubSeq(t, 1, Len(t) - 1)) ELSE t
Strip(t) == RStrip(LStrip(t))

\* an append that would insert no separator
AppendedWithoutSpace(buffer, text) == buffer \o text

\* "if buffer: buffer += ' '" then "buffer += text"
Appended(buffer, text) ==
    (IF buffer # <<>> THEN buffer \o <<" ">> ELSE buffer) \o text

add_to_text_buffer(s, text) ==
    /\ Len(Appended(Get(session_text_buffers, s, <<>>), text)) <= MaxBufLen
    /\ session_text_buffers' =
           DictSet(session_text_buffers, s, Appended(Get(session_text_buffers, s, <<>>), text))
    /\ UNCHANGED <<regVars, session_buffer_timers, translation_buffers, translation_timers,
                   timerState, ended>>

\* a drain that would leave the buffer as it is
KeepTextBuffer(s) ==
    /\ session_text_buffers' = DictSet(session_text_buffers, s, Get(session_text_buffers, s, <<>>))
    /\ UNCHANGED <<regVars, session_buffer_timers, translation_buffers, translation_timers,
                   timerState, ended>>

clear_text_buffer(s) ==
    /\ session_text_buffers' = DictSet(session_text_buffers, s, <<>>)
    /\ UNCHANGED <<regVars, session_buffer_timers, translation_buffers, translation_timers,
                   timerState, ended>>

\* "text = self.session_text_buffers.get(session_id, '')", which the call returns
clear_text_buffer_returns(s) == Get(session_text_buffers, s, <<>>)

clear_translation_buffer_returns(s) == Get(translation_buffers, s, <<>>)

add_to_translation_buffer(s, text) ==
    /\ Len(Appended(Get(translation_buffers, s, <<>>), Strip(text))) <= MaxBufLen
    /\ translation_buffers' =
           DictSet(translation_buffers, s, Appended(Get(translation_buffers, s, <<>>), Strip(text)))
    /\ UNCHANGED <<regVars, session_text_buffers, session_buffer_timers, translation_timers,
                   timerState, ended>>

clear_translation_buffer(s) ==
    /\ translation_buffers' = DictSet(translation_buffers, s, <<>>)
    /\ UNCHANGED <<regVars, session_text_buffers, session_buffer_timers, translation_timers,
                   timerState, ended>>

\* timer_task is a task the caller has just created: a task object no table holds
FreshTask(t) ==
    /\ t \notin {session_buffer_timers[k] : k \in DOMAIN session_buffer_timers}
    /\ t \notin {translation_timers[k] : k \in DOMAIN translation_timers}
    /\ timerState[t] # "pending"

\* a set_*_timer that would register the new task without cancelling the old one
ReplacedWithoutCancel(timers, s, t) == [timerState EXCEPT ![t] = "pending"]

\* the task states after "cancel the registered timer, if any" and the start of t
Replaced(timers, s, t) ==
    [(IF s \in DOMAIN timers THEN Cancel(timerState, timers[s]) ELSE timerState)
        EXCEPT ![t] = "pending"]

set_buffer_timer(s, t) ==
    /\ FreshTask(t)
    /\ timerState' = Replaced(session_buffer_timers, s, t)
    /\ session_buffer_timers' = DictSet(session_buffer_timers, s, t)
    /\ UNCHANGED <<regVars, session_text_buffers, translation_buffers, translation_timers, ended>>

cancel_buffer_timer(s) ==
    /\ s \in DOMAIN session_buffer_timers
    /\ timerState' = Cancel(timerState, session_buffer_timers[s])
    /\ session_buffer_timers' = DictDel(session_buffer_timers, s)
    /\ UNCHANGED <<regVars, session_text_buffers, translation_buffers, translation_timers, ended>>

set_translation_timer(s, t) ==
    /\ FreshTask(t)
    /\ timerState' = Replaced(translation_timers, s, t)
    /\ translation_timers' = DictSet(translation_timers, s, t)
    /\ UNCHANGED <<regVars, session_text_buffers, translation_buffers, session_buffer_timers, ended>>

cancel_translation_timer(s) ==
    /\ s \in DOMAIN translation_timers
    /\ timerState' = Cancel(timerState, translation_timers[s])
    /\ translation_timers' = DictDel(translation_timers, s)
    /\ UNCHANGED <<regVars, session_text_buffers, translation_buffers, session_buffer_timers, ended>>

\* a pending timer task runs to its end
TimerFires(t) ==
    /\ timerState[t] = "pending"
    /\ timerState' = [timerState EXCEPT ![t] = "fired"]
    /\ UNCHANGED <<regVars, session_text_buffers, session_buffer_timers, translation_buffers,
                   translation_timers, ended>>

\* ---------------------------------------------------------- text helpers
\* str.lower(), character by character
LowerChar(c) ==
    CASE c = "A" -> "a" []
        c = "B" -> "b" []
        c = "C" -> "c" []
        c = "D" -> "d" []
        c = "E" -> "e" []
        c = "F" -> "f" []
        c = "G" -> "g" []
        c = "H" -> "h" []
        c = "I" -> "i" []
        c = "J" -> "j" []
        c = "K" -> "k" []
        c = "L" -> "l" []
        c = "M" -> "m" []
        c = "N" -> "n" []
        c = "O" -> "o" []
        c = "P" -> "p" []
        c = "Q" -> "q" []
        c = "R" -> "r" []
        c = "S" -> "s" []
        c = "T" -> "t" []
        c = "U" -> "u" []
        c = "V" -> "v" []
        c = "W" -> "w" []
        c = "X" -> "x" []
        c = "Y" -> "y" []
        c = "Z" -> "z" []
        c = "É" -> "é" []
        c = "Í" -> "í" []
        c = "Ú" -> "ú" []
        c = "Ñ" -> "ñ" []
        OTHER -> c
Lower(t) == [i \in 1..Len(t) |-> LowerChar(t[i])]

\* the characters \w of a regular expression matches (letters, digits, "_")
WordChars ==
    {"a", "b", "c", "d", "e", "f", "g", "h", "i", "j", "k", "l", "m",
     "n", "o", "p", "q", "r", "s", "t", "u", "v", "w", "x", "y", "z",
     "A", "B", "C", "D", "E", "F", "G", "H", "I", "J", "K", "L", "M",
     "N", "O", "P", "Q", "R", "S", "T", "U", "V", "W", "X", "Y", "Z",
     "á", "é", "í", "ó", "ú", "ñ", "É", "Í", "Ú", "Ñ",
     "0", "1", "2", "3", "4", "5", "6", "7", "8", "9", "_"}

\* str.split(): the maximal runs of non-space characters, in order
RECURSIVE SplitFrom(_, _, _)
SplitFrom(t, i, word) ==
    IF i > Len(t) THEN (IF word = <<>> THEN <<>> ELSE <<word>>)
    ELSE IF IsSpace(t[i])
         THEN (IF word = <<>> THEN <<>> ELSE <<word>>) \o SplitFrom(t, i + 1, <<>>)
         ELSE SplitFrom(t, i + 1, Append(word, t[i]))
\* (the operand is evaluated once, whatever expression it is)
Split(t) == CHOOSE words \in {SplitFrom(s, 1, <<>>) : s \in {t}} : TRUE

RECURSIVE JoinAll(_)
JoinAll(ws) ==
    IF ws = <<>> THEN <<>>
    ELSE IF Len(ws) = 1 THEN ws[1]
    ELSE ws[1] \o <<" ">> \o JoinAll(Tail(ws))

\* ' '.join(words) (the operand is evaluated once, whatever expression it is)
JoinWords(ws) == CHOOSE text \in {JoinAll(w) : w \in {ws}} : TRUE

EndsWith(t, suffix) ==
    /\ Len(suffix) <= Len(t)
    /\ SubSeq(t, Len(t) - Len(suffix) + 1, Len(t)) = suffix

\* re.sub(r'[^\w\s]', '', text)
RemovePunctuation(t) == SelectSeq(t, LAMBDA c : c \in WordChars \/ IsSpace(c))

filler_words == {
    <<"o", "h">>, <<"u", "m">>, <<"a", "h">>, <<"e", "h">>, <<"e", "r">>, <<"u", "h">>,
    <<"h", "m", "m">>, <<"m", "m">>, <<"w", "a", "i", "t">>,
    <<"e", "s", "p", "e", "r", "a">>, <<"o", "b", "t", "e", "n", "e", "r">>,
    <<"r", "e", "c", "i", "b", "i", "e", "n", "d", "o">>, <<"v", "i", "e", "n", "d", "o">>,
    <<"t", "r", "a", "d", "u", "c", "c", "i", "o", "n">>,
    <<"t", "r", "a", "d", "u", "c", "t", "i", "o", "n">>, <<"i", "n", "g", "l", "e", "s">>,
    <<"i", "n", "g", "l", "é", "s">>, <<"e", "n", "g", "l", "i", "s", "h">>,
    <<"s", "p", "a", "n", "i", "s", "h">>, <<"e", "s", "p", "a", "ñ", "o", "l">>,
    <<"a", "l">>, <<"l", "a">>, <<"e", "l">>, <<"l", "o", "s">>, <<"l", "a", "s">>,
    <<"u", "n">>, <<"u", "n", "a">>, <<"d", "e">>, <<"d", "e", "l">>, <<"y">>, <<"o">>,
    <<"p", "e", "r", "o">>, <<"p", "o", "r", "q", "u", "e">>, <<"q", "u", "e">>,
    <<"c", "o", "m", "o">>, <<"c", "u", "a", "n", "d", "o">>, <<"d", "o", "n", "d", "e">>}

religious_endings == {
    <<"a", "m", "é", "n">>, <<" ", "a", "m", "é", "n">>, <<"j", "e", "s", "ú", "s">>,
    <<"c", "r", "i", "s", "t", "o">>, <<"e", "s", "p", "í", "r", "i", "t", "u">>,
    <<"s", "a", "n", "t", "o">>, <<"p", "a", "d", "r", "e">>}

_normalize_text(text) ==
    IF text = <<>> THEN <<>>
    ELSE LET collapsed == JoinWords(Split(Lower(text)))
             words == Split(RemovePunctuation(collapsed))
         IN JoinWords(SelectSeq(words, LAMBDA w : w \notin filler_words /\ Len(w) > 2))

\* the same rule with the length test one character later
CompleteBeyondFive(text) ==
    LET t == Strip(text)
    IN IF t = <<>> THEN FALSE
       ELSE IF Len(t) <= 5 THEN FALSE
       ELSE IF t[Len(t)] \in {".", "!", "?", ":"} THEN TRUE
       ELSE IF \E e \in religious_endings : EndsWith(Lower(t), e) THEN TRUE
       ELSE Len(Split(t)) >= 3 /\ Len(t) >= 15

\* _is_text_complete_enough(text)
_is_text_complete_enough(text) ==
    LET t == Strip(text)
    IN IF t = <<>> THEN FALSE
       ELSE IF Len(t) < 5 THEN FALSE
       ELSE IF t[Len(t)] \in {".", "!", "?", ":"} THEN TRUE
       ELSE IF \E e \in religious_endings : EndsWith(Lower(t), e) THEN TRUE
       ELSE Len(Split(t)) >= 3 /\ Len(t) >= 15

\* _calculate_similarity(text1, text2): the ratio is kept exact, as the pair
\* of its numerator and denominator (1.0 is <<1, 1>>, 0.0 is <<0, 1>>)
_calculate_similarity(text1, text2) ==
    IF text1 = text2 THEN <<1, 1>>
    ELSE LET text1_norm == _normalize_text(text1)
             text2_norm == _normalize_text(text2)
             words1 == Range(Split(text1_norm))
             words2 == Range(Split(text2_norm))
             intersection == Cardinality(words1 \cap words2)
             union == Cardinality(words1 \cup words2)
         IN IF text1_norm = text2_norm THEN <<1, 1>>
            ELSE IF words1 = {} \/ words2 = {} THEN <<0, 1>>
            ELSE IF union = 0 THEN <<0, 1>>
            ELSE <<intersection, union>>

\* _calculate_similarity(text1, text2) > num / den
SimilarityExceeds(text1, text2, num, den) ==
    LET similarity == _calculate_similarity(text1, text2)
    IN similarity[1] * den > num * similarity[2]

\* ------------------------------------------------- transcription bridge
cfgVars == <<api_key_configured, translation_enabled>>
dedupVars == <<translated_texts, last_translation_times>>

HelloThere == <<"H", "e", "l", "l", "o", " ", "t", "h", "e", "r", "e", ".">>
UmWait == <<"u", "m", " ", "w", "a", "i", "t">>

NoMsg == [type |-> "none"]
Turn(transcript, end_of_turn, turn_is_formatted) ==
    [type |-> "Turn", transcript |-> transcript, end_of_turn |-> end_of_turn,
     turn_is_formatted |-> turn_is_formatted]

\* the provider events of the bridge specification; turn_is_formatted is
\* "absent" when the event does not carry the key
BridgeMessages ==
    {Turn(HelloThere, TRUE, "true"), Turn(UmWait, FALSE, "absent"), Turn(<<" ">>, TRUE, "false"),
     [type |-> "Begin"], [type |-> "Error"]}

\* a complete sentence with every combination of the flags of a Turn, a
\* transcript that _is_text_complete_enough rejects and a blank one
AllTurns ==
    {Turn(HelloThere, end_of_turn, turn_is_formatted) :
        end_of_turn \in BOOLEAN, turn_is_formatted \in {"true", "false", "absent"}}
    \cup {Turn(UmWait, TRUE, "true"), Turn(<<" ">>, TRUE, "true")}

NewClient == [pc |-> "new", session_id |-> None, handle |-> None, last_audio |-> "none"]
\* the endpoint has returned: its locals are gone
ClosedClient == [NewClient EXCEPT !.pc = "closed"]
NoProvider == [state |-> "unused", session_id |-> None]
NoListener == [pc |-> "none", session_id |-> None, target |-> None, out |-> NoMsg, turn |-> NoMsg]
FreeTask == [pc |-> "free", session_id |-> None, text |-> <<>>, target |-> None, out |-> NoMsg]

\* no translate_text call
IdleLookup == [pc |-> "idle", cache_key |-> None]

\* the bridge after the import of the module, with its configuration
BridgeAtStart ==
    /\ api_key_configured \in BOOLEAN
    /\ translation_enabled \in BOOLEAN
    /\ active_connections = EmptyDict
    /\ assembly_sessions = EmptyDict
    /\ translated_texts = EmptyDict
    /\ last_translation_times = EmptyDict
    /\ cl = [c \in Clients |-> NewClient]
    /\ prov = [p \in Providers |-> NoProvider]
    /\ inbox = [p \in Providers |-> NoMsg]
    /\ lst = [p \in Providers |-> NoListener]
    /\ task = [t \in Tasks |-> FreeTask]
    /\ clock = 0
    /\ sent = <<>>

\* no call of a text helper
NoCall == [function |-> "none", args |-> <<>>, returned |-> <<>>]

\* no translate_stream call of the Gemini provider
NoStream == [pc |-> "none", chat_key |-> None, result |-> "none"]

\* no key of the cache: a key is never the empty string
NoKey == <<>>
NoLookup == [text |-> <<>>, source_lang |-> <<>>, target_lang |-> <<>>, returned |-> NoKey]

\* the translation service holding the given cache, and the histories
TranslatorHaving(cache) ==
    /\ translation_requests = <<>>
    /\ translation_done_at = EmptyDict
    /\ _translation_cache = cache
    /\ tc = [k \in Lookups |-> IdleLookup]
    /\ last_lookup = NoLookup
    /\ translation_results = <<>>
    /\ _chats = EmptyDict
    /\ gm = [t \in Tasks \cup TurnTasks |-> NoStream]
    /\ call = NoCall

\* the translation service after construction
InitTranslator == TranslatorHaving(<<>>)

\* the clients of the set have joined session 1, the given one last: the
\* provider connection the first of them opened is open, their endpoints wait
\* for audio and the listener waits for events, of which the provider has
\* sent the first (NoMsg: none yet)
JoinedHaving(joined, last, first, texts, times) ==
    /\ InitTranslator
    /\ api_key_configured = TRUE
    /\ translation_enabled \in BOOLEAN
    /\ active_connections = DictSet(EmptyDict, 1, last)
    /\ assembly_sessions = DictSet(EmptyDict, 1, 1)
    /\ translated_texts = texts
    /\ last_translation_times = times
    /\ cl = [c \in Clients |->
                IF c \in joined THEN [NewClient EXCEPT !.pc = "receiving", !.session_id = 1]
                ELSE NewClient]
    /\ prov = [p \in Providers |-> IF p = 1 THEN [state |-> "open", session_id |-> 1]
                                    ELSE NoProvider]
    /\ inbox = [p \in Providers |-> IF p = 1 THEN first ELSE NoMsg]
    /\ lst = [p \in Providers |-> IF p = 1 THEN [NoListener EXCEPT !.pc = "recv", !.session_id = 1]
                                   ELSE NoListener]
    /\ task = [t \in TurnTasks |-> FreeTask]
    /\ clock = 0
    /\ sent = <<>>

\* one client has joined session 1
ConnectedHaving(first, texts, times) == JoinedHaving({1}, 1, first, texts, times)

ConnectedWith(first) == ConnectedHaving(first, EmptyDict, EmptyDict)

InitConnected == ConnectedWith(NoMsg)

\* the digits of the decimal numerals
Digit(d) == <<"0", "1", "2", "3", "4", "5", "6", "7", "8", "9">>[d + 1]

\* the normalized text of an earlier sentence: one word, unlike any other
EarlierText(i) == <<"w", Digit((i \div 100) % 10), Digit((i \div 10) % 10), Digit(i % 10)>>

\* a connected client whose session has translated n sentences, the latest
\* of them one second ago
ConnectedAfter(n) ==
    ConnectedHaving(NoMsg, DictSet(EmptyDict, 1, {EarlierText(i) : i \in 1..n}),
                    DictSet(EmptyDict, 1, 0 - 1))

InitBridge == InitTranslator /\ BridgeAtStart

\* a websocket_endpoint call of the key has not reached its "finally": the
\* client is connected
HasConnection(s) ==
    \E c \in Clients :
        /\ cl[c].session_id = s
        /\ cl[c].pc \notin {"new", "closed", "cleanup_send", "cleanup_close"}

\* wall-clock time advances
Tick ==
    /\ clock < MaxClock
    /\ clock' = clock + 1
    /\ UNCHANGED <<cfgVars, active_connections, assembly_sessions, dedupVars, cl, prov, inbox,
                   lst, task>>

\* the "finally" of websocket_endpoint, up to the first await of
\* cleanup_assemblyai_session (or to the end when the key has no handle)
Finally(c) ==
    LET s == cl[c].session_id
    IN /\ active_connections' = DictDel(active_connections, s)
       /\ IF s \in DOMAIN assembly_sessions
          THEN cl' = [cl EXCEPT ![c].pc = "cleanup_send", ![c].handle = assembly_sessions[s]]
          ELSE cl' = [cl EXCEPT ![c] = ClosedClient]

\* websocket_endpoint from the accepted connection to its first await
ClientConnect(c, s) ==
    /\ cl[c].pc \in {"new", "closed"}
    /\ active_connections' = DictSet(active_connections, s, c)
    /\ cl' = [cl EXCEPT ![c] = [NewClient EXCEPT
                 !.session_id = s,
                 !.pc = IF s \in DOMAIN assembly_sessions THEN "welcome"
                        ELSE IF api_key_configured THEN "connecting"
                        ELSE "send_error"]]
    /\ UNCHANGED <<cfgVars, assembly_sessions, dedupVars, prov, inbox, lst, task, clock>>

\* a provider websocket object that does not exist yet
FreshProvider(p) == prov[p].state = "unused"

\* the websocket object h is garbage once c drops its local reference: the
\* listener has ended (and with it the table entry) and no other call holds it
Forgotten(c, h) ==
    /\ lst[h].pc = "done"
    /\ \A other \in Clients \ {c} : cl[other].handle # h

\* the objects f (websockets or listener tasks) after c has dropped h
Dropped(f, c, h, nothing) == IF Forgotten(c, h) THEN [f EXCEPT ![h] = nothing] ELSE f

\* "await websockets.connect(...)" of setup_assemblyai_session returns (ok) or
\* raises; the rest of setup and the endpoint up to its next await
SetupDone(c, ok, p) ==
    /\ cl[c].pc = "connecting"
    /\ IF ok
       THEN /\ FreshProvider(p)
            /\ \A q \in Providers : q < p => ~FreshProvider(q)
            /\ prov' = [prov EXCEPT ![p] = [state |-> "open", session_id |-> cl[c].session_id]]
            /\ assembly_sessions' = DictSet(assembly_sessions, cl[c].session_id, p)
            /\ lst' = [lst EXCEPT ![p] = [NoListener EXCEPT
                          !.pc = "recv", !.session_id = cl[c].session_id]]
            /\ inbox' = [inbox EXCEPT ![p] = NoMsg]
            /\ cl' = [cl EXCEPT ![c].pc = "welcome"]
       ELSE /\ p = 1
            /\ cl' = [cl EXCEPT ![c].pc = "send_error"]
            /\ UNCHANGED <<prov, assembly_sessions, lst, inbox>>
    /\ UNCHANGED <<cfgVars, active_connections, dedupVars, task, clock>>

\* the send of the "connected" message returns or raises
WelcomeDone(c, ok) ==
    /\ cl[c].pc = "welcome"
    /\ IF ok
       THEN /\ cl' = [cl EXCEPT ![c].pc = "receiving"]
            /\ UNCHANGED active_connections
       ELSE Finally(c)
    /\ UNCHANGED <<cfgVars, assembly_sessions, dedupVars, prov, inbox, lst, task, clock>>

\* the send of an "error" message by the endpoint returns or raises: both
\* ways lead to the "finally"
SendErrorDone(c) ==
    /\ cl[c].pc = "send_error"
    /\ Finally(c)
    /\ UNCHANGED <<cfgVars, assembly_sessions, dedupVars, prov, inbox, lst, task, clock>>

\* a bridge that would open the provider connection on the first audio chunk
ReconnectOnAudio(c, at_least_100) ==
    LET s == cl[c].session_id
    IN IF ~at_least_100
       THEN cl' = [cl EXCEPT ![c].last_audio = "skipped_small"]
       ELSE IF s \notin DOMAIN assembly_sessions
       THEN cl' = [cl EXCEPT ![c].pc = "connecting", ![c].last_audio = "no_session"]
       ELSE cl' = [cl EXCEPT ![c].pc = "forwarding", ![c].handle = assembly_sessions[s],
                             ![c].last_audio = "sending"]

\* process_audio_chunk up to its first await; the branch taken is kept in last_audio
process_audio_chunk(c, at_least_100) ==
    LET s == cl[c].session_id
    IN IF ~at_least_100
       THEN cl' = [cl EXCEPT ![c].last_audio = "skipped_small"]
       ELSE IF s \notin DOMAIN assembly_sessions
       THEN cl' = [cl EXCEPT ![c].last_audio = "no_session"]
       ELSE cl' = [cl EXCEPT ![c].pc = "forwarding", ![c].handle = assembly_sessions[s],
                             ![c].last_audio = "sending"]

\* "await websocket.receive_bytes()" returns a chunk or raises
Receive(c, event) ==
    /\ cl[c].pc = "receiving"
    /\ CASE event = "small_chunk" -> process_audio_chunk(c, FALSE) /\ UNCHANGED active_connections
         [] event = "chunk" -> process_audio_chunk(c, TRUE) /\ UNCHANGED active_connections
         [] event = "disconnect" -> Finally(c)
         [] event = "error" -> cl' = [cl EXCEPT ![c].pc = "send_error"]
                               /\ UNCHANGED active_connections
    /\ UNCHANGED <<cfgVars, assembly_sessions, dedupVars, prov, inbox, lst, task, clock>>

\* "await websocket.send(audio_data)" returns, or raises on a closed connection
ForwardDone(c) ==
    /\ cl[c].pc = "forwarding"
    /\ IF prov[cl[c].handle].state = "open"
       THEN cl' = [cl EXCEPT ![c].pc = "receiving", ![c].handle = None, ![c].last_audio = "sent"]
       ELSE cl' = [cl EXCEPT
                     ![c].pc = IF cl[c].session_id \in DOMAIN active_connections
                               THEN "audio_error" ELSE "receiving",
                     ![c].handle = None, ![c].last_audio = "send_failed"]
    /\ prov' = Dropped(prov, c, cl[c].handle, NoProvider)
    /\ lst' = Dropped(lst, c, cl[c].handle, NoListener)
    /\ UNCHANGED <<cfgVars, active_connections, assembly_sessions, dedupVars, inbox, task, clock>>

\* the send of the "Failed to process audio" message returns or raises (caught)
AudioErrorDone(c) ==
    /\ cl[c].pc = "audio_error"
    /\ cl' = [cl EXCEPT ![c].pc = "receiving"]
    /\ UNCHANGED <<cfgVars, active_connections, assembly_sessions, dedupVars, prov, inbox, lst,
                   task, clock>>

\* the end of cleanup_assemblyai_session: both caches lose the key
ClearDedup(s) ==
    /\ translated_texts' = DictDel(translated_texts, s)
    /\ last_translation_times' = DictDel(last_translation_times, s)

\* cleanup: the send of SessionTermination returns, or raises on a closed connection
CleanupSendDone(c) ==
    /\ cl[c].pc = "cleanup_send"
    /\ IF prov[cl[c].handle].state = "open"
       THEN /\ cl' = [cl EXCEPT ![c].pc = "cleanup_close"]
            /\ UNCHANGED <<dedupVars, prov, lst>>
       ELSE /\ cl' = [cl EXCEPT ![c] = ClosedClient]
            /\ ClearDedup(cl[c].session_id)
            /\ prov' = Dropped(prov, c, cl[c].handle, NoProvider)
            /\ lst' = Dropped(lst, c, cl[c].handle, NoListener)
    /\ UNCHANGED <<cfgVars, active_connections, assembly_sessions, inbox, task, clock>>

\* cleanup: "await websocket.close()" returns (ok) or raises; then
\* "del assembly_sessions[session_id]", whose KeyError is caught
CleanupCloseDone(c, ok) ==
    /\ cl[c].pc = "cleanup_close"
    /\ prov' = Dropped([prov EXCEPT ![cl[c].handle].state = "closed"], c, cl[c].handle, NoProvider)
    /\ lst' = Dropped(lst, c, cl[c].handle, NoListener)
    /\ assembly_sessions' = IF ok THEN DictDel(assembly_sessions, cl[c].session_id)
                            ELSE assembly_sessions
    /\ cl' = [cl EXCEPT ![c] = ClosedClient]
    /\ ClearDedup(cl[c].session_id)
    /\ UNCHANGED <<cfgVars, active_connections, inbox, task, clock>>

\* the provider closes the connection, or the connection breaks
ProviderCloses(p) ==
    /\ prov[p].state = "open"
    /\ prov' = [prov EXCEPT ![p].state = "closed"]
    /\ UNCHANGED <<cfgVars, active_connections, assembly_sessions, dedupVars, cl, inbox, lst,
                   task, clock>>

\* the provider sends an event
ProviderSends(p, m) ==
    /\ prov[p].state = "open"
    /\ inbox[p] = NoMsg
    /\ inbox' = [inbox EXCEPT ![p] = m]
    /\ UNCHANGED <<cfgVars, active_connections, assembly_sessions, dedupVars, cl, prov, lst,
                   task, clock>>

\* listen_to_assemblyai: the "async for" ends on the closed connection and
\* the "finally" deletes the key's handle
ListenerEnds(p) ==
    /\ lst[p].pc = "recv"
    /\ inbox[p] = NoMsg
    /\ prov[p].state = "closed"
    /\ IF \E c \in Clients : cl[c].handle = p
       THEN lst' = [lst EXCEPT ![p].pc = "done"] /\ UNCHANGED prov
       ELSE lst' = [lst EXCEPT ![p] = NoListener] /\ prov' = [prov EXCEPT ![p] = NoProvider]
    /\ assembly_sessions' = DictDel(assembly_sessions, lst[p].session_id)
    /\ UNCHANGED <<cfgVars, active_connections, dedupVars, cl, inbox, task, clock>>

transcript_text(m) == Strip(m.transcript)

\* a handler that would call a turn ready only once it is final and formatted
LiveMessageReadyWhenFinal(s, m) ==
    [type |-> "live_transcript",
     text |-> transcript_text(m),
     target_language |-> IF translation_enabled THEN "es" ELSE "None",
     translation_status |->
         IF ~translation_enabled THEN "disabled"
         ELSE IF m.end_of_turn /\ m.turn_is_formatted # "absent" THEN "ready" ELSE "translating",
     session_id |-> s,
     is_final |-> m.end_of_turn /\ (m.turn_is_formatted = "true" \/ m.turn_is_formatted # "absent")]

LiveMessage(s, m) ==
    [type |-> "live_transcript",
     text |-> transcript_text(m),
     target_language |-> IF translation_enabled THEN "es" ELSE "None",
     translation_status |->
         IF translation_enabled /\ ~m.end_of_turn THEN "translating"
         ELSE IF ~translation_enabled THEN "disabled" ELSE "ready",
     session_id |-> s,
     is_final |-> m.end_of_turn /\ (m.turn_is_formatted = "true" \/ m.turn_is_formatted # "absent")]

\* a handler that would translate every finished turn
StartsTranslationUnchecked(m) ==
    /\ translation_enabled
    /\ transcript_text(m) # <<>>
    /\ m.end_of_turn

\* the condition under which a Turn starts a translation task
StartsTranslation(m) ==
    /\ translation_enabled
    /\ transcript_text(m) # <<>>
    /\ m.end_of_turn
    /\ _is_text_complete_enough(transcript_text(m))

\* asyncio.create_task(translate_and_broadcast_async(...)) after the live send
SpawnTranslation(s, m) ==
    IF StartsTranslation(m)
    THEN \E t \in DOMAIN task :
            /\ task[t].pc = "free"
            /\ \A u \in DOMAIN task : u < t => task[u].pc # "free"
            /\ task' = [task EXCEPT ![t] = [FreeTask EXCEPT
                           !.pc = "spawned", !.session_id = s, !.text = transcript_text(m)]]
    ELSE UNCHANGED task

\* two sentences with the same normalized text, and a third sentence
HelloThereAgain == <<"H", "e", "l", "l", "o", ",", " ", "t", "h", "e", "r", "e", "!">>
GraceToYou == <<"G", "r", "a", "c", "e", " ", "t", "o", " ", "y", "o", "u", ".">>
RequestTexts == {HelloThere, HelloThereAgain, GraceToYou}

\* the same create_task for a Turn whose text is known: a translation request
RequestTranslation(t, s, text) ==
    /\ task[t].pc = "free"
    /\ \A u \in DOMAIN task : u < t => task[u].pc # "free"
    /\ task' = [task EXCEPT ![t] = [FreeTask EXCEPT
                   !.pc = "spawned", !.session_id = s, !.text = text]]
    /\ UNCHANGED <<cfgVars, active_connections, assembly_sessions, dedupVars, cl, prov, inbox,
                   lst, clock>>

\* handle_assemblyai_message up to its first await
ListenerHandles(p) ==
    /\ lst[p].pc = "recv"
    /\ inbox[p] # NoMsg
    /\ inbox' = [inbox EXCEPT ![p] = NoMsg]
    /\ LET m == inbox[p]
           s == lst[p].session_id
       IN CASE m.type = "Turn" ->
                 IF transcript_text(m) = <<>>
                 THEN UNCHANGED <<lst, task>>
                 ELSE IF s \in DOMAIN active_connections
                 THEN /\ lst' = [lst EXCEPT ![p].pc = "sending",
                                            ![p].target = active_connections[s],
                                            ![p].out = LiveMessage(s, m), ![p].turn = m]
                      /\ UNCHANGED task
                 ELSE /\ SpawnTranslation(s, m)
                      /\ UNCHANGED lst
            [] m.type = "Error" ->
                 /\ UNCHANGED task
                 /\ IF s \in DOMAIN active_connections
                    THEN lst' = [lst EXCEPT ![p].pc = "sending",
                                            ![p].target = active_connections[s],
                                            ![p].out = [type |-> "error"], ![p].turn = NoMsg]
                    ELSE UNCHANGED lst
            [] OTHER -> UNCHANGED <<lst, task>>
    /\ UNCHANGED <<cfgVars, active_connections, assembly_sessions, dedupVars, cl, prov, clock>>

\* the listener's send to the client returns or raises (caught); a Turn goes
\* on to start its translation
ListenerSent(p) ==
    /\ lst[p].pc = "sending"
    /\ lst' = [lst EXCEPT ![p].pc = "recv", ![p].target = None, ![p].out = NoMsg,
                          ![p].turn = NoMsg]
    /\ IF lst[p].turn # NoMsg THEN SpawnTranslation(lst[p].session_id, lst[p].turn)
       ELSE UNCHANGED task
    /\ UNCHANGED <<cfgVars, active_connections, assembly_sessions, dedupVars, cl, prov, inbox,
                   clock>>

DedupCap == 100
DedupKeep == 50

\* k elements of a set
RECURSIVE Some(_, _)
Some(S, k) ==
    IF k = 0 \/ S = {} THEN {}
    ELSE LET e == CHOOSE x \in S : TRUE
         IN {e} \cup Some(S \ {e}, k - 1)

KeptAll(texts) == {texts}

\* "set(list(cache)[-50:])": the list of a set has no defined order, so any
\* 50 of the texts can be the ones kept. Of these choices the model takes
\* three that between them keep every text and drop every text.
KeptAfterCap(texts) ==
    IF Cardinality(texts) > DedupCap
    THEN LET a == Some(texts, DedupKeep)
             b == Some(texts \ a, DedupKeep)
             rest == texts \ (a \cup b)
         IN {a, b, rest \cup Some(a, DedupKeep - Cardinality(rest))}
    ELSE {texts}

NeverThrottled(s) == FALSE

\* "time_since_last < 1.0", for a key that has a last translation time
Throttled(s) == s \in DOMAIN last_translation_times /\ clock - last_translation_times[s] < 1

\* translate_and_broadcast_async up to the await of translate_text
TranslateStart(t) ==
    /\ task[t].pc = "spawned"
    /\ LET s == task[t].session_id
           clean_text == _normalize_text(task[t].text)
           seen == Get(translated_texts, s, {})
       IN IF Throttled(s)
          THEN /\ task' = [task EXCEPT ![t] = FreeTask]
               /\ UNCHANGED dedupVars
          ELSE IF \/ clean_text \in seen
                  \/ \E existing_text \in seen : SimilarityExceeds(clean_text, existing_text, 6, 10)
          THEN /\ task' = [task EXCEPT ![t] = FreeTask]
               /\ translated_texts' = DictSet(translated_texts, s, seen)
               /\ UNCHANGED last_translation_times
          ELSE /\ task' = [task EXCEPT ![t].pc = "translating"]
               /\ last_translation_times' = DictSet(last_translation_times, s, clock)
               /\ \E kept \in KeptAfterCap(seen \cup {clean_text}) :
                      translated_texts' = DictSet(translated_texts, s, kept)
    /\ UNCHANGED <<cfgVars, active_connections, assembly_sessions, cl, prov, inbox, lst, clock>>

\* a task that would report only the translations that succeeded
TranslateReturnsText(t, outcome) ==
    /\ task[t].pc = "translating"
    /\ LET s == task[t].session_id
           message == [type |-> "translation_update", original_text |-> task[t].text,
                       translation_status |-> "success", error |-> FALSE]
       IN IF s \in DOMAIN active_connections /\ outcome = "text"
          THEN task' = [task EXCEPT ![t].pc = "sending", ![t].target = active_connections[s],
                                    ![t].out = message]
          ELSE task' = [task EXCEPT ![t] = FreeTask]
    /\ UNCHANGED <<cfgVars, active_connections, assembly_sessions, dedupVars, cl, prov, inbox,
                   lst, clock>>

\* translate_text returns a text, returns nothing, or raises
TranslateReturns(t, outcome) ==
    /\ task[t].pc = "translating"
    /\ LET s == task[t].session_id
           message == [type |-> "translation_update", original_text |-> task[t].text,
                       translation_status |-> IF outcome = "text" THEN "success" ELSE "failed",
                       error |-> outcome = "raise"]
       IN IF s \in DOMAIN active_connections
          THEN task' = [task EXCEPT ![t].pc = "sending", ![t].target = active_connections[s],
                                    ![t].out = message]
          ELSE task' = [task EXCEPT ![t] = FreeTask]
    /\ UNCHANGED <<cfgVars, active_connections, assembly_sessions, dedupVars, cl, prov, inbox,
                   lst, clock>>

\* the send of the translation_update returns or raises (caught)
TranslateSent(t) ==
    /\ task[t].pc = "sending"
    /\ task' = [task EXCEPT ![t] = FreeTask]
    /\ UNCHANGED <<cfgVars, active_connections, assembly_sessions, dedupVars, cl, prov, inbox,
                   lst, clock>>

\* ------------------------------------------------------ translation cache
\* TranslationServiceV2._cache_max_size
CacheMax == 1000

\* "len(cache_items) // 10"
EvictShare == 10

\* a cache key stands for "<clean text in lower case>_<source>_<target>"; the
\* cache is a dict, kept as the sequence of its keys in the order of insertion
CacheKeys == {1} \cup {CacheMax + i : i \in 1..NumNewKeys}

EvictedNothing(cache) == cache

\* "if len(cache) >= max: delete the first max(1, len // 10) items"
Evicted(cache) ==
    IF Len(cache) >= CacheMax
    THEN LET tenth == Len(cache) \div EvictShare
             remove_count == IF tenth > 1 THEN tenth ELSE 1
         IN SubSeq(cache, remove_count + 1, Len(cache))
    ELSE cache

\* "cache[cache_key] = result": a key the dict holds keeps its place
Inserted(cache, cache_key) ==
    IF cache_key \in Range(cache) THEN cache ELSE Append(cache, cache_key)

\* translate_text up to its await of the provider: a hit in the cache (also
\* the hit of a similar text) returns at once, a miss calls the provider
translate_text(k, cache_key) ==
    /\ tc[k].pc = "idle"
    /\ tc' = IF cache_key \in Range(_translation_cache)
             THEN tc
             ELSE [tc EXCEPT ![k] = [pc |-> "streaming", cache_key |-> cache_key]]
    /\ UNCHANGED _translation_cache

\* language codes, and the pairs translate_text is called with
Auto == <<"a", "u", "t", "o">>
Es == <<"e", "s">>
En == <<"e", "n">>
LanguagePairs == {<<Auto, Es>>, <<En, Es>>}

\* texts of nine, ten and eleven words, the first also as it may be typed
Letters == <<"a", "b", "c", "d", "e", "f", "g", "h", "i", "j", "k">>
WordsOf(n) == JoinWords([i \in 1..n |-> <<Letters[i]>>])
NineWords == WordsOf(9)
TenWords == WordsOf(10)
ElevenWords == WordsOf(11)
NineTyped == <<" ", "A">> \o Tail(NineWords) \o <<" ">>
LookupTexts == {NineWords, TenWords, ElevenWords, NineTyped, <<" ">>}

\* f"{clean_text.lower()}_{source_lang}_{target_lang}"
CacheKey(clean_text, source_lang, target_lang) ==
    Lower(clean_text) \o <<"_">> \o source_lang \o <<"_">> \o target_lang

TextsAreEqual(text1, text2, num, den) == text1 = text2

\* _texts_are_similar(text1, text2, threshold = num / den), the ratio kept exact
_texts_are_similar(text1, text2, num, den) ==
    IF text1 = text2 THEN TRUE
    ELSE LET words1 == Range(Split(text1))
             words2 == Range(Split(text2))
             intersection == Cardinality(words1 \cap words2)
             union == Cardinality(words1 \cup words2)
         IN IF words1 = {} \/ words2 = {} THEN FALSE
            ELSE IF union = 0 THEN FALSE
            ELSE intersection * den >= num * union

\* the positions of the keys the loop of the fuzzy match stops at
FuzzyHits(cache, clean_text, source_lang, target_lang) ==
    LET suffix == <<"_">> \o source_lang \o <<"_">> \o target_lang
    IN {i \in 1..Len(cache) :
          /\ EndsWith(cache[i], suffix)
          /\ _texts_are_similar(Lower(clean_text),
                                SubSeq(cache[i], 1, Len(cache[i]) - Len(suffix)), 9, 10)}

\* the key whose cached result the lookup of translate_text returns, NoKey
\* when it returns none: the exact key first, then the first similar one
Found(cache, text, source_lang, target_lang) ==
    LET clean_text == Strip(text)
        cache_key == CacheKey(clean_text, source_lang, target_lang)
        hits == FuzzyHits(cache, clean_text, source_lang, target_lang)
    IN IF clean_text = <<>> THEN NoKey
       ELSE IF cache_key \in Range(cache) THEN cache_key
       ELSE IF hits # {} THEN cache[CHOOSE i \in hits : \A j \in hits : i <= j]
       ELSE NoKey

\* translate_text up to its await of the provider, the text and the languages
\* given: an empty text and a hit return at once, a miss calls the provider
TranslateTextCalled(k, text, source_lang, target_lang) ==
    LET found == Found(_translation_cache, text, source_lang, target_lang)
    IN /\ tc[k].pc = "idle"
       /\ tc' = IF Strip(text) = <<>> \/ found # NoKey THEN tc
                ELSE [tc EXCEPT ![k] =
                         [pc |-> "streaming",
                          cache_key |-> CacheKey(Strip(text), source_lang, target_lang)]]
       /\ last_lookup' = [text |-> text, source_lang |-> source_lang,
                          target_lang |-> target_lang, returned |-> found]
       /\ UNCHANGED _translation_cache

\* the provider's chunks have arrived: a valid result is cached
TranslateTextReturns(k, valid) ==
    /\ tc[k].pc = "streaming"
    /\ _translation_cache' =
           IF valid THEN Inserted(Evicted(_translation_cache), tc[k].cache_key)
           ELSE _translation_cache
    /\ tc' = [tc EXCEPT ![k] = IdleLookup]

\* ----------------------------------------------- Gemini chat contexts
\* _get_chat_key(session_id, "auto", "es"): one key for each session, as
\* the bridge asks for one language pair
ChatKey(s) == s

\* a chat session whose history is empty: model.start_chat(history=[])
NewChat == [seeded |-> FALSE]

\* GeminiTranslateProvider.translate_stream, called by the translate_text of
\* task t on a cache miss, up to its first await: the system prompt sent on
\* a new chat, the translation prompt on a chat the table holds
translate_stream(t) ==
    LET chat_key == ChatKey(task[t].session_id)
    IN /\ task[t].pc = "translating"
       /\ gm[t].pc = "none"
       /\ IF chat_key \notin DOMAIN _chats
          THEN /\ _chats' = DictSet(_chats, chat_key, NewChat)
               /\ gm' = [gm EXCEPT ![t] = [pc |-> "seeding", chat_key |-> chat_key,
                                           result |-> "none"]]
          ELSE /\ gm' = [gm EXCEPT ![t] = [pc |-> "prompting", chat_key |-> chat_key,
                                           result |-> "none"]]
               /\ UNCHANGED _chats

\* "await send_message_async(system_prompt)" returns, the system prompt in
\* the history of the chat, and the translation prompt is sent; or it raises,
\* which ends the stream with no chunk
SystemPromptDone(t, ok) ==
    /\ gm[t].pc = "seeding"
    /\ IF ok
       THEN /\ _chats' = [_chats EXCEPT ![gm[t].chat_key].seeded = TRUE]
            /\ gm' = [gm EXCEPT ![t].pc = "prompting"]
       ELSE /\ gm' = [gm EXCEPT ![t].pc = "done", ![t].result = "none"]
            /\ UNCHANGED _chats

\* "await send_message_async(prompt)" returns a text, which is yielded, or
\* returns none or raises, which ends the stream with no chunk
PromptDone(t, result) ==
    /\ gm[t].pc = "prompting"
    /\ gm' = [gm EXCEPT ![t].pc = "done", ![t].result = result]
    /\ UNCHANGED _chats

\* ---------------------------------------------------- paragraph refiner
\* config.PARAGRAPHIZER_COOLDOWN_SECONDS, an integer of the environment
PARAGRAPHIZER_COOLDOWN_SECONDS == 1

\* config.PARAGRAPHIZER_RETRY_BACKOFF_SECONDS, an integer of the environment
PARAGRAPHIZER_RETRY_BACKOFF_SECONDS == 1

\* config.PARAGRAPHIZER_PROVIDER: "gemini", "http", and LeMUR for anything else
RefineProviders == {"gemini", "http", "lemur"}

\* the Retry-After header of a 429 response: absent, not a number, a number
RetryAfters == {"absent", "soon", "-1", "0", "1"}

\* float(retry_after), where it is defined
Float == ("-1" :> (0 - 1)) @@ ("0" :> 0) @@ ("1" :> 1)

BackoffZero(retry_after) == 0

\* the backoff that a 429 response gives: float(retry_after), and the
\* configured backoff on TypeError (no header) and ValueError (no number)
Backoff(retry_after) ==
    IF retry_after \in DOMAIN Float
    THEN Float[retry_after]
    ELSE PARAGRAPHIZER_RETRY_BACKOFF_SECONDS

\* max(0.0, delay_seconds) of _refine_after_delay
SleepOf(delay_seconds) == IF delay_seconds > 0 THEN delay_seconds ELSE 0

\* what a provider call can give: a text, nothing usable (an empty answer, an
\* error status, an exception, a result that is no text), and from http and
\* LeMUR a 429 response with its Retry-After header
ProviderAnswers(provider) ==
    {[outcome |-> o, retry_after |-> "absent"] : o \in {"text", "none"}}
        \cup IF provider = "gemini"
             THEN {}
             ELSE {[outcome |-> "rate_limited", retry_after |-> h] : h \in RetryAfters}

IdleRefine == [pc |-> "idle", session_id |-> None, has_text |-> FALSE, now |-> 0, wake |-> 0]

NoAnswer == [answer |-> "no", due |-> 0]

InitRefinerWith(providers) ==
    /\ paragraphizer_last_call_at = EmptyDict
    /\ rf = [r \in Refines |-> IdleRefine]
    /\ refine_called_at = EmptyDict
    /\ last_answer = [r \in Refines |-> NoAnswer]
    /\ paragraphizer_provider \in providers

InitRefiner == InitRefinerWith({"gemini"})

\* _refine_after_delay is created as a task and sleeps until wake
Deferred(r, s, has_text, delay_seconds) ==
    [rf EXCEPT ![r] = [pc |-> "sleeping", session_id |-> s, has_text |-> has_text,
                       now |-> 0, wake |-> clock + SleepOf(delay_seconds)]]

\* _refine_with_http and _refine_with_lemur on a 429 response: the http
\* provider starts a deferred retry, LeMUR only prints the backoff
RateLimited(r, s, retry_after) ==
    IF paragraphizer_provider = "http"
    THEN Deferred(r, s, TRUE, Backoff(retry_after))
    ELSE [rf EXCEPT ![r] = IdleRefine]

RefineAnsweredStamping(r, s, now, answer) ==
    /\ paragraphizer_last_call_at' = DictSet(paragraphizer_last_call_at, s, now)
    /\ IF answer.outcome = "text"
       THEN /\ BroadcastStart(1, s, None)
            /\ rf' = [rf EXCEPT ![r] = [pc |-> "broadcasting", session_id |-> s,
                                        has_text |-> TRUE, now |-> now, wake |-> 0]]
       ELSE /\ rf' = [rf EXCEPT ![r] = IdleRefine]
            /\ UNCHANGED <<regVars, bufVars, ended>>

\* refine_and_broadcast_paragraph after the provider call, up to the await
\* of the broadcast: a text is recorded with the time taken before the call
\* and its broadcast starts
RefineAnswered(r, s, now, answer) ==
    CASE answer.outcome = "text" ->
            /\ paragraphizer_last_call_at' = DictSet(paragraphizer_last_call_at, s, now)
            /\ BroadcastStart(1, s, None)
            /\ rf' = [rf EXCEPT ![r] = [pc |-> "broadcasting", session_id |-> s,
                                        has_text |-> TRUE, now |-> now, wake |-> 0]]
      [] answer.outcome = "none" ->
            /\ rf' = [rf EXCEPT ![r] = IdleRefine]
            /\ UNCHANGED <<paragraphizer_last_call_at, regVars, bufVars, ended>>
      [] answer.outcome = "rate_limited" ->
            /\ rf' = RateLimited(r, s, answer.retry_after)
            /\ UNCHANGED <<paragraphizer_last_call_at, regVars, bufVars, ended>>

\* refine_and_broadcast_paragraph up to its first await: the cooldown gate
\* (a deferred retry is the task _refine_after_delay), the test of the text
\* and the provider call, which ends within the step for Gemini
\* (generate_content does not await) and is awaited for http and LeMUR
refine_and_broadcast_paragraph(r, s, has_text, answer) ==
    LET now == clock
    IN IF /\ s \in DOMAIN paragraphizer_last_call_at
          /\ now - paragraphizer_last_call_at[s] < PARAGRAPHIZER_COOLDOWN_SECONDS
       THEN LET delta == now - paragraphizer_last_call_at[s]
                delay == PARAGRAPHIZER_COOLDOWN_SECONDS - delta
            IN /\ rf' = Deferred(r, s, has_text, delay)
               /\ UNCHANGED <<paragraphizer_last_call_at, regVars, bufVars, ended>>
       ELSE IF ~has_text
       THEN /\ rf' = [rf EXCEPT ![r] = IdleRefine]
            /\ UNCHANGED <<paragraphizer_last_call_at, regVars, bufVars, ended>>
       ELSE IF paragraphizer_provider = "gemini"
       THEN RefineAnswered(r, s, now, answer)
       ELSE /\ rf' = [rf EXCEPT ![r] = [pc |-> "calling", session_id |-> s,
                                        has_text |-> has_text, now |-> now, wake |-> 0]]
            /\ UNCHANGED <<paragraphizer_last_call_at, regVars, bufVars, ended>>

\* a caller asks for the refinement of a paragraph of session s
RefineRequest(r, s, has_text, answer) ==
    /\ rf[r].pc = "idle"
    /\ refine_and_broadcast_paragraph(r, s, has_text, answer)

\* _refine_after_delay: the sleep is over and the request is made again
RefineWakes(r, answer) ==
    /\ rf[r].pc = "sleeping"
    /\ clock >= rf[r].wake
    /\ refine_and_broadcast_paragraph(r, rf[r].session_id, rf[r].has_text, answer)

\* the awaited provider call of http or LeMUR returns
RefineReturns(r, answer) ==
    /\ rf[r].pc = "calling"
    /\ RefineAnswered(r, rf[r].session_id, rf[r].now, answer)

\* broadcast_to_session has returned or raised (caught): the call ends
RefineBroadcastDone(r) ==
    /\ rf[r].pc = "broadcasting"
    /\ BroadcastReturn(1)
    /\ rf' = [rf EXCEPT ![r] = IdleRefine]
    /\ UNCHANGED paragraphizer_last_call_at

\* ------------------------------------------------- claims on the registry
ConnectionsOf(s) == Get(active_sessions, s, {})

\* C1: a session key is present in the registry if and only if its
\* connection set is non-empty, in every reachable state.
C1_PresentIffNonEmpty ==
    \A s \in Sessions : (s \in DOMAIN active_sessions) <=> (ConnectionsOf(s) # {})

SessionState(s) ==
    {d \in {"text_buffer", "buffer_timer", "translation_buffer", "translation_timer",
            "dedup_set", "last_translation_time"} :
        \/ d = "text_buffer" /\ s \in DOMAIN session_text_buffers
        \/ d = "buffer_timer" /\ s \in DOMAIN session_buffer_timers
        \/ d = "translation_buffer" /\ s \in DOMAIN translation_buffers
        \/ d = "translation_timer" /\ s \in DOMAIN translation_timers
        \/ d = "dedup_set" /\ s \in DOMAIN translated_texts
        \/ d = "last_translation_time" /\ s \in DOMAIN last_translation_times}

\* C2: once the last connection of a session has left, no text buffer,
\* translation buffer, buffer timer, translation timer, dedup set or
\* last-translation time exists for that key until a new join, whatever
\* append, drain and set-timer operations run in between.
C2_NoStateAfterEnd == \A s \in ended : SessionState(s) = {}

Finished(b) == bc[b].pc \in {"done", "raised"}

\* the connections of the session when the broadcast has started, while no
\* step has changed them
AtStart(b) ==
    IF bc[b].session_id \in DOMAIN active_sessions THEN active_sessions[bc[b].session_id] ELSE {}

\* the state a broadcast has when it starts: nothing is sent yet
Starting(b) == bc[b].pc = "idle" /\ bc'[b].pc # "idle"

\* the broadcast addresses the connections of the session, without the excluded one
C3_AddressesAll ==
    \A b \in Broadcasts :
        Starting(b) =>
            bc'[b].websockets_to_send = AtStart(b)' \ {bc'[b].exclude_websocket}

\* each addressee gets the message once unless its send failed, nobody else gets it
C3_DeliveredOnce ==
    \A b \in Broadcasts : \A w \in Conns :
        /\ bc[b].delivered[w] <= 1
        /\ Finished(b) =>
              bc[b].delivered[w] =
                  IF w \in bc[b].websockets_to_send \ bc[b].disconnected THEN 1 ELSE 0

\* the connections whose send failed in a broadcast to s that ends in this step
FailedNow(s) ==
    UNION {bc[b].disconnected' : b \in {x \in Broadcasts :
              bc[x].pc = "send" /\ Finished(x)' /\ bc[x].session_id = s}}

C3_RemovesTheFailed ==
    (bc' # bc) => \A s \in Sessions : ConnectionsOf(s)' = ConnectionsOf(s) \ FailedNow(s)

C4_BroadcastNeverRaises == \A b \in Broadcasts : bc[b].pc # "raised"

\* ------------------------------------------------------ claims on timers
\* the timer tasks registered for session s, of both kinds
TimersOf(s) ==
    (IF s \in DOMAIN session_buffer_timers THEN {session_buffer_timers[s]} ELSE {})
    \cup (IF s \in DOMAIN translation_timers THEN {translation_timers[s]} ELSE {})

\* the last connection of s leaves in this step
LastLeaves(s) == s \in DOMAIN active_sessions /\ s \notin DOMAIN active_sessions'

\* timer task t fires in this step
Fires(t) == timerState[t] = "pending" /\ timerState'[t] = "fired"

\* C11: when the last connection of a session leaves, every pending buffer
\* timer and translation timer of the session is cancelled and removed in
\* that step, and no timer of an ended session fires afterwards.
C11_NoTimerAfterEnd ==
    [][/\ \A s \in Sessions :
             LastLeaves(s) =>
                 /\ TimersOf(s)' = {}
                 /\ \A t \in TimersOf(s) : timerState'[t] # "pending"
       /\ \A t \in Timers : Fires(t) => \A s \in ended : t \notin TimersOf(s)]_vars

TimerTables == <<session_buffer_timers, translation_timers>>

\* every pending timer is the one registered for some session and kind, and
\* no task is registered twice
C12_PendingIsRegistered ==
    /\ \A t \in Timers :
          timerState[t] = "pending" => \E s \in Sessions : t \in TimersOf(s)
    /\ \A i, j \in 1..2 : \A s1 \in DOMAIN TimerTables[i], s2 \in DOMAIN TimerTables[j] :
          TimerTables[i][s1] = TimerTables[j][s2] => i = j /\ s1 = s2

\* a changed registration has started the new timer and cancelled the old
\* one; a removed registration has cancelled its timer
C12_ReplacesAndRemoves ==
    \A i \in 1..2 : \A s \in Sessions :
        /\ (s \in DOMAIN TimerTables[i]' /\ Get(TimerTables[i], s, None) # TimerTables[i]'[s]) =>
               /\ timerState'[TimerTables[i]'[s]] = "pending"
               /\ s \in DOMAIN TimerTables[i] => timerState'[TimerTables[i][s]] # "pending"
        /\ (s \in DOMAIN TimerTables[i] /\ s \notin DOMAIN TimerTables[i]') =>
               timerState'[TimerTables[i][s]] # "pending"

\* C12: for every session and buffer kind at most one timer is pending at
\* any time: setting a timer while one is registered cancels the old one and
\* replaces it, and cancelling removes the registered timer.
C12_OnePendingTimer ==
    /\ []C12_PendingIsRegistered
    /\ [][C12_ReplacesAndRemoves]_vars

\* a timer has been replaced: the old one is cancelled, the new one is pending
C12_Witness ==
    \E s \in Sessions, old \in Timers :
        /\ s \in DOMAIN session_buffer_timers
        /\ s \notin DOMAIN translation_timers
        /\ session_buffer_timers[s] # old
        /\ timerState[session_buffer_timers[s]] = "pending"
        /\ timerState[old] = "cancelled"

\* ----------------------------------------------------- claims on buffers
\* the fragments without the empty ones at the front
RECURSIVE DropLeadingEmpty(_)
DropLeadingEmpty(frags) ==
    IF frags # <<>> /\ Head(frags) = <<>> THEN DropLeadingEmpty(Tail(frags)) ELSE frags

\* C13 as stated: a drain of the text buffer returns the fragments appended
\* since the last drain, in append order, joined by exactly one space between
\* consecutive fragments; a drain that directly follows a drain returns "".
C13_DrainReturnsJoined ==
    drained.kind = "text" => drained.text = JoinWords(drained.fragments)

\* C13 as the code has it: a drain of the text buffer returns the fragments
\* appended since the last drain, in append order, each fragment appended to
\* a non-empty buffer preceded by one space: the fragments joined by single
\* spaces once the empty fragments at the front are left out; a drain that
\* directly follows a drain returns "".
C13_DrainReturnsAppended ==
    drained.kind = "text" => drained.text = JoinWords(DropLeadingEmpty(drained.fragments))

\* a drain has returned "a" for the appends "" and "a"
C13_Witness ==
    /\ drained.kind = "text"
    /\ drained.fragments = <<(<<>>), <<"a">>>>
    /\ drained.text = <<"a">>

\* what a buffer of the kind holds after the appends of the fragments
Held(kind, frags) ==
    JoinWords(DropLeadingEmpty(
        [i \in 1..Len(frags) |-> IF kind = "translation" THEN Strip(frags[i]) ELSE frags[i]]))

BufferOf(kind, s) ==
    IF kind = "text" THEN Get(session_text_buffers, s, <<>>) ELSE Get(translation_buffers, s, <<>>)

\* C14: in every interleaving of appends and drains each appended fragment is
\* returned by exactly one drain: a buffer holds the fragments appended since
\* its last drain and no other, and a drain returns all of them.
C14_DrainIsAtomic ==
    /\ \A kind \in {"text", "translation"} : \A s \in Sessions :
          BufferOf(kind, s) = Held(kind, Get(appended[kind], s, <<>>))
    /\ drained.kind # "none" => drained.text = Held(drained.kind, drained.fragments)

\* a translation drain has returned two fragments while the text buffer of
\* the session holds a fragment of another task
C14_Witness ==
    /\ drained.kind = "translation"
    /\ Len(drained.fragments) = 2
    /\ drained.text = <<"a", " ", "b">>
    /\ BufferOf("translation", drained.session_id) = <<>>
    /\ Get(appended["text"], drained.session_id, <<>>) # <<>>
    /\ BufferOf("text", drained.session_id) # <<>>

\* --------------------------------------------------- claims on the bridge
\* the clients that have joined session s and are being served
Viewers(s) ==
    {c \in Clients : cl[c].session_id = s /\ cl[c].pc \in {"receiving", "forwarding", "audio_error"}}

\* the clients the listener of p is sending a message to
Addressed(p) == IF lst[p].pc = "sending" THEN {lst[p].target} ELSE {}

\* the listener of p takes a Turn with a non-empty transcript in this step
HandlesLiveTurn(p) ==
    /\ lst[p].pc = "recv"
    /\ inbox[p].type = "Turn"
    /\ transcript_text(inbox[p]) # <<>>
    /\ inbox'[p] = NoMsg

\* C5: when a Turn with a non-empty transcript arrives for a session, its
\* live_transcript message goes to every connection that belongs to the
\* session, not only to one of them.
C5_LiveToAllViewers ==
    [][\A p \in Providers :
          HandlesLiveTurn(p) => Viewers(lst[p].session_id) \subseteq Addressed(p)']_vars

OpenProviders(s) == {p \in Providers : prov[p].state = "open" /\ prov[p].session_id = s}

\* C6: at any time a session key has at most one open provider connection.
C6_OneProviderPerKey == \A s \in BridgeSessions : Cardinality(OpenProviders(s)) <= 1

\* a close path of provider connection p completes in this step: its listener
\* ends, or a cleanup call that holds it finishes its close
ClosePathOf(p) ==
    \/ lst[p].pc = "recv" /\ lst'[p].pc \in {"done", "none"}
    \/ \E c \in Clients :
          cl[c].pc = "cleanup_close" /\ cl[c].handle = p /\ cl'[c].pc = "closed"

\* C7: the handle of a session leaves the handle table only through a close
\* path of that same provider connection; a later close path of a connection
\* already released leaves the table unchanged.
C7_ReleasedByItsOwnClose ==
    [][\A s \in DOMAIN assembly_sessions :
          (s \notin DOMAIN assembly_sessions') => ClosePathOf(assembly_sessions[s])]_vars

\* the listener of provider connection p ends in this step
ListenerEndsFor(p) ==
    lst[p].pc = "recv" /\ lst'[p].pc \in {"done", "none"} /\ cl' = cl

\* C37: a listener that ends removes the handle of its session key only if
\* that handle is the connection it was reading from; a newer handle
\* registered for the key in the meantime stays in the table.
C37_ListenerRemovesOwnHandle ==
    [][\A p \in Providers :
          ListenerEndsFor(p) =>
              \A s \in DOMAIN assembly_sessions :
                  assembly_sessions[s] # p =>
                      /\ s \in DOMAIN assembly_sessions'
                      /\ assembly_sessions'[s] = assembly_sessions[s]]_vars

\* a chunk of at least 100 bytes arrives at client c and the key has no handle
DropsAudio(c) == cl[c].last_audio # "no_session" /\ cl'[c].last_audio = "no_session"

\* client c joins in this step
Joins(c) == cl[c].pc \in {"new", "closed"} /\ cl'[c].pc \notin {"new", "closed"}

\* a connection attempt of client c ends in failure in this step
AttemptFails(c) == cl[c].pc = "connecting" /\ cl'[c].pc \notin {"connecting", "welcome"}

\* the failure of an attempt is reported to the client and the endpoint goes
\* on to its end: no second attempt
FailureIsFinal(c) ==
    /\ AttemptFails(c) => cl'[c].pc = "send_error"
    /\ (cl[c].pc = "send_error" /\ cl'[c].pc # "send_error") =>
           cl'[c].pc \in {"cleanup_send", "closed"}

C9_NoSilentDrop == \A c \in Clients : cl[c].last_audio # "no_session"

\* the endpoint of client c runs to its end in this step
Ends(c) == cl[c].pc # "closed" /\ cl'[c].pc = "closed"

\* C10: when a session ends (its client connection closes), the dedup set and
\* the last-translation time of its key are removed, whether or not the key
\* still has a provider handle.
C10_DedupClearedAtEnd ==
    [][\A c \in Clients :
          Ends(c) =>
              /\ cl[c].session_id \notin DOMAIN translated_texts'
              /\ cl[c].session_id \notin DOMAIN last_translation_times']_vars

\* ------------------------------------------------------- claims on refines
\* the call r starts its provider call in this step
StartsCall(r) == rf[r].pc # "calling" /\ rf'[r].pc = "calling"

\* C20: for each session, no refinement provider call starts less than
\* PARAGRAPHIZER_COOLDOWN_SECONDS after an earlier refinement call of that
\* session, also when the refine requests of the session overlap.
C20_CooldownBetweenCalls ==
    [][\A r \in Refines :
          StartsCall(r) /\ rf'[r].session_id \in DOMAIN refine_called_at =>
              clock - refine_called_at[rf'[r].session_id] >= PARAGRAPHIZER_COOLDOWN_SECONDS]_vars

\* the deferred retries of session s that are asleep
PendingRetries(s) == {r \in Refines : rf[r].pc = "sleeping" /\ rf[r].session_id = s}

\* C21: for each session at most one deferred refinement retry is pending at
\* any time (a request that arrives during the cooldown replaces the retry
\* that is already scheduled).
C21_OnePendingRetry == \A s \in Sessions : Cardinality(PendingRetries(s)) <= 1

\* the provider call of r ends in this step with a 429 response
Gets429(r) ==
    rf[r].pc = "calling" /\ rf'[r].pc # "calling" /\ last_answer'[r].answer = "rate_limited"

\* the broadcast of r's refined paragraph starts in this step
StartsBroadcast(r) ==
    /\ rf[r].pc # "broadcasting" /\ rf'[r].pc = "broadcasting"
    /\ bc[1].pc = "idle" /\ bc'[1].pc # "idle"
    /\ bc'[1].session_id = rf'[r].session_id

\* C22: when the http provider answers a refine request with 429 and
\* Retry-After N (the configured backoff where the header is absent or no
\* number), one retry of the request is scheduled and nothing is broadcast in
\* that step, the retry starts no earlier than N seconds after the answer, and
\* so does any broadcast of the request.
C22_Http429RetriesAfterN ==
    [][paragraphizer_provider = "http" =>
          \A r \in Refines :
             /\ Gets429(r) =>
                    /\ rf'[r].pc = "sleeping"
                    /\ rf'[r].session_id = rf[r].session_id
                    /\ Cardinality({q \in Refines : rf'[q] # rf[q]}) = 1
                    /\ bc' = bc
             /\ last_answer[r].answer = "rate_limited" /\ rf'[r] # rf[r] =>
                    clock >= last_answer[r].due
             /\ last_answer[r].answer = "rate_limited" /\ StartsBroadcast(r) =>
                    clock >= last_answer[r].due]_vars

\* a retry of a request that got 429 with Retry-After 1 is calling the provider
C22_Witness ==
    \E r \in Refines :
        /\ paragraphizer_provider = "http"
        /\ last_answer[r] = [answer |-> "rate_limited", due |-> 1]
        /\ rf[r].pc = "calling"

\* C23: a single refine request causes a bounded number of provider calls:
\* from some point on no provider call starts any more, also when the provider
\* answers 429 to every call.
C23_CallsEventuallyStop == <>[][\A r \in Refines : ~StartsCall(r)]_vars

\* C24: when LeMUR answers a refine request with 429, a deferred retry of the
\* request is scheduled, as for the http provider.
C24_Every429Retries ==
    [][\A r \in Refines :
          Gets429(r) => rf'[r].pc = "sleeping" /\ rf'[r].session_id = rf[r].session_id]_vars

\* C25: a provider call that gives no usable text broadcasts nothing and
\* leaves the cooldown timestamps as they are, and a timestamp changes only in
\* the step that starts the broadcast of paragraph_refined for its session;
\* every refine call ends by returning to its caller.
C25_FailureLeavesNoTrace ==
    [][/\ \A r \in Refines :
             rf[r].pc = "calling" /\ rf'[r].pc \in {"idle", "sleeping"} =>
                 bc' = bc /\ paragraphizer_last_call_at' = paragraphizer_last_call_at
       /\ \A s \in Sessions :
             Get(paragraphizer_last_call_at', s, None) # Get(paragraphizer_last_call_at, s, None)
                \/ (s \in DOMAIN paragraphizer_last_call_at') # (s \in DOMAIN paragraphizer_last_call_at)
             => \E r \in Refines : StartsBroadcast(r) /\ rf'[r].session_id = s
       /\ \A r \in Refines :
             rf[r].pc = "broadcasting" /\ rf'[r] # rf[r] => rf'[r] = IdleRefine]_vars

\* LeMUR has answered 429: the call has ended, nothing is broadcast and no
\* timestamp is kept
C25_Witness ==
    \E r \in Refines :
        /\ paragraphizer_provider = "lemur"
        /\ rf[r].pc = "idle" /\ last_answer[r].answer = "rate_limited"
        /\ bc[1].pc = "idle"
        /\ paragraphizer_last_call_at = EmptyDict

\* C34: when the last connection of a session leaves, the cooldown table of
\* the paragraph refiner has no entry for the key any more, so that a later
\* session of the same key starts with no cooldown in force.
C34_CooldownClearedAtEnd ==
    [][\A s \in Sessions :
          LastLeaves(s) => s \notin DOMAIN paragraphizer_last_call_at']_vars

\* ------------------------------------------- claims on translation requests
\* the requests of session s that went on to translate_text
CallsOf(s) ==
    {i \in 1..Len(translation_requests) :
        translation_requests[i].session_id = s /\ translation_requests[i].outcome = "called"}

\* when the latest of them was accepted
LastCallAt(s) ==
    translation_requests[CHOOSE i \in CallsOf(s) : \A j \in CallsOf(s) : j <= i].at

\* the request of task t runs in this step, up to its first await or its end
Runs(t) == task[t].pc = "spawned" /\ task'[t] # task[t]

\* the request of task t ends in this step: no provider call, no message,
\* no other task, and the dedup state is what it was
DroppedEntirely(t) ==
    /\ task' = [task EXCEPT ![t] = FreeTask]
    /\ Get(translated_texts', task[t].session_id, {}) = Get(translated_texts, task[t].session_id, {})
    /\ last_translation_times' = last_translation_times
    /\ sent' = sent

\* C26 as stated: a translation request that arrives less than 1 second after
\* the previous translation of its session completed is dropped entirely.
C26_DroppedAfterCompletion ==
    [][\A t \in DOMAIN task :
          LET s == task[t].session_id
          IN Runs(t) /\ s \in DOMAIN translation_done_at /\ clock - translation_done_at[s] < 1
                => DroppedEntirely(t)]_vars

\* C26, amended: a translation request that arrives less than 1 second after
\* the latest request of its session that went on to the provider call was
\* accepted is dropped entirely: no provider call, no message, no retry, and
\* the dedup set is left as it was.
C26_DroppedAfterStart ==
    [][\A t \in DOMAIN task :
          LET s == task[t].session_id
          IN Runs(t) /\ CallsOf(s) # {} /\ clock - LastCallAt(s) < 1
                => DroppedEntirely(t)]_vars

\* a request was throttled while the call of an earlier one was in flight
C26_Witness ==
    /\ \E i \in 1..Len(translation_requests) : translation_requests[i].outcome = "throttled"
    /\ \E t \in DOMAIN task : task[t].pc = "translating"

\* the translation_update messages sent for a sentence with fingerprint fp
UpdatesOf(fp) ==
    {j \in 1..Len(sent) :
        sent[j].type = "translation_update" /\ _normalize_text(sent[j].original_text) = fp}

\* C27: the translation requests of one session with the same normalized
\* text make at most one provider call and at most one translation_update
\* message between them, in every interleaving.
C27_OneCallPerFingerprint ==
    \A s \in DOMAIN active_connections, text \in RequestTexts :
        LET fp == _normalize_text(text)
        IN /\ Cardinality({i \in CallsOf(s) : translation_requests[i].text = fp}) <= 1
           /\ Cardinality(UpdatesOf(fp)) <= 1

\* C30: the translation cache never holds more than 1000 entries, whatever
\* the interleaving of the tasks that insert; an insert that finds the cache
\* full first evicts a tenth of the entries (at least one), the ones that
\* were inserted first, and keeps the others in their order.
C30_CacheBounded ==
    /\ [](Len(_translation_cache) <= CacheMax)
    /\ [][_translation_cache' # _translation_cache /\ Len(_translation_cache) >= CacheMax =>
             LET n == Len(_translation_cache)
                 gone == IF n \div 10 > 1 THEN n \div 10 ELSE 1
             IN /\ Len(_translation_cache') \in {n - gone, n - gone + 1}
                /\ SubSeq(_translation_cache', 1, n - gone) =
                       SubSeq(_translation_cache, gone + 1, n)]_vars

\* a tenth of a full cache was evicted and the new key inserted, while
\* another call awaits its provider
C30_Witness ==
    /\ Len(_translation_cache) = CacheMax - (CacheMax \div 10) + 1
    /\ _translation_cache[1] = (CacheMax \div 10) + 1
    /\ _translation_cache[Len(_translation_cache)] > CacheMax
    /\ \E k \in Lookups : tc[k].pc = "streaming"

\* the Jaccard similarity of the words of two texts is at least 0.9
JaccardNineTenths(text1, text2) ==
    LET words1 == Range(Split(text1))
        words2 == Range(Split(text2))
    IN /\ words1 # {} /\ words2 # {}
       /\ 10 * Cardinality(words1 \cap words2) >= 9 * Cardinality(words1 \cup words2)

\* the texts whose result the cache holds under the key, for the language pair
CachedTexts(cache_key, source_lang, target_lang) ==
    {Lower(Strip(text)) : text \in {x \in LookupTexts :
        Strip(x) # <<>> /\ CacheKey(Strip(x), source_lang, target_lang) = cache_key}}

\* the call of translate_text this step makes has a text that equals, or is
\* similar to, the text of key i of the cache, cached for its language pair
Matches(i) ==
    \E text \in CachedTexts(_translation_cache[i], last_lookup'.source_lang,
                             last_lookup'.target_lang) :
        \/ text = Lower(Strip(last_lookup'.text))
        \/ JaccardNineTenths(Lower(Strip(last_lookup'.text)), text)

\* C31: a translate_text call whose text equals the text of a cache key of
\* its language pair, or has a Jaccard similarity of at least 0.9 to it,
\* returns the result cached under such a key and does not call the
\* provider; the result it returns is never one cached for another pair.
C31_HitWithoutProvider ==
    [][last_lookup' # last_lookup /\ Strip(last_lookup'.text) # <<>> =>
          LET hits == {i \in 1..Len(_translation_cache) : Matches(i)}
          IN /\ hits # {} => /\ tc' = tc
                             /\ \E i \in hits : last_lookup'.returned = _translation_cache[i]
             /\ last_lookup'.returned # NoKey =>
                    \E i \in hits : last_lookup'.returned = _translation_cache[i]]_vars

\* a call found a similar text of its language pair, while the cache holds
\* its very text for another pair, cached earlier
C31_Witness ==
    /\ last_lookup.returned # NoKey
    /\ last_lookup.returned #
           CacheKey(Strip(last_lookup.text), last_lookup.source_lang, last_lookup.target_lang)
    /\ \E i, j \in 1..Len(_translation_cache) :
          /\ i < j
          /\ _translation_cache[j] = last_lookup.returned
          /\ \E pair \in LanguagePairs :
                /\ pair # <<last_lookup.source_lang, last_lookup.target_lang>>
                /\ _translation_cache[i] = CacheKey(Strip(last_lookup.text), pair[1], pair[2])

\* the translation_update that reports how a translate_text call ended
ExpectedUpdate(r) ==
    [type |-> "translation_update", original_text |-> r.text,
     translation_status |-> IF r.outcome = "text" THEN "success" ELSE "failed",
     error |-> r.outcome = "raise"]

\* how many times the message was sent, and how many calls that ended while
\* the session had a connection it reports
Reported(m) == Cardinality({i \in 1..Len(sent) : sent[i] = m})
Due(m) ==
    Cardinality({i \in 1..Len(translation_results) :
                    translation_results[i].connected
                    /\ ExpectedUpdate(translation_results[i]) = m})

\* C32: every translation request that passes the throttle and the dedup
\* checks ends its translate_text call once, and if the session has a
\* connection then, one translation_update is sent for it and no more:
\* "success" after a result, "failed" after no result, "failed" with an
\* error field after an exception.
C32_OneUpdatePerRequest ==
    /\ [](\A i \in 1..Len(sent) :
            sent[i].type = "translation_update" /\ Reported(sent[i]) <= Due(sent[i]))
    /\ [](Len(translation_results)
            <= Cardinality({i \in 1..Len(translation_requests) :
                               translation_requests[i].outcome = "called"}))
    /\ <>[](/\ Len(translation_results)
                = Cardinality({i \in 1..Len(translation_requests) :
                                  translation_requests[i].outcome = "called"})
            /\ \A i \in 1..Len(translation_results) :
                  translation_results[i].connected =>
                      Reported(ExpectedUpdate(translation_results[i]))
                          = Due(ExpectedUpdate(translation_results[i])))

\* C38: while a client stays connected to a session key, the steps of the
\* other clients of the key (their disconnects and cleanups) keep the
\* connection entry of the key and its provider handle.
C38_OtherClientKept ==
    [][\A c \in Clients :
          cl[c].pc = "receiving" /\ cl'[c].pc = "receiving" =>
              LET s == cl[c].session_id
              IN /\ s \in DOMAIN active_connections =>
                       /\ s \in DOMAIN active_connections'
                       /\ active_connections'[s] = active_connections[s]
                 /\ s \in DOMAIN assembly_sessions => s \in DOMAIN assembly_sessions']_vars

\* C33: when a session ends (the endpoint of its client returns), the Gemini
\* provider holds no chat context of the session key.
C33_ChatReleasedAtEnd ==
    [][\A c \in Clients :
          Ends(c) => ChatKey(cl[c].session_id) \notin DOMAIN _chats']_vars

\* the call of task t sends its translation prompt in this step
SendsPrompt(t) == gm[t].pc # "prompting" /\ gm'[t].pc = "prompting"

\* C39: a translation prompt is sent on a chat context only after the system
\* instruction of the context has completed, also when the calls of two
\* tasks on the context overlap; and a context is unseeded only while its
\* system instruction is in flight: a context whose seeding failed is not
\* kept.
C39_SeededBeforePrompts ==
    /\ [][\A t \in DOMAIN gm :
             SendsPrompt(t) => _chats'[gm'[t].chat_key].seeded]_vars
    /\ [](\A chat_key \in DOMAIN _chats :
             ~_chats[chat_key].seeded =>
                 \E t \in DOMAIN gm : gm[t].pc = "seeding" /\ gm[t].chat_key = chat_key)

\* C28: in every reachable state the dedup set of every session holds at most
\* 100 entries.
C28_DedupSetBounded ==
    \A s \in DOMAIN translated_texts : Cardinality(translated_texts[s]) <= DedupCap

\* the set of a session was cut down to 50 entries, and has at most one more now
C28_Witness ==
    \E s \in DOMAIN translated_texts :
        /\ Cardinality(translated_texts[s]) \in {DedupKeep, DedupKeep + 1}
        /\ \E i \in 1..DedupCap : EarlierText(i) \in translated_texts[s]

\* C29: when the dedup set of a session exceeds 100 entries it is cut down to
\* 50 entries, and the fingerprint that the accepted request has just inserted
\* is among them (the request that is accepted leaves its fingerprint in the
\* set, whether the set is cut down or not).
C29_TriggerIsRetained ==
    [][\A t \in DOMAIN task :
          task[t].pc = "spawned" /\ task'[t].pc = "translating" =>
              LET s == task[t].session_id
              IN /\ _normalize_text(task[t].text) \in translated_texts'[s]
                 /\ Cardinality(translated_texts[s]) >= DedupCap =>
                        Cardinality(translated_texts'[s]) = DedupKeep]_vars

\* the provider call of a request ends without a result in this step
FailsNow ==
    /\ Len(translation_results') = Len(translation_results) + 1
    /\ translation_results'[Len(translation_results')].outcome \in {"none", "raise"}

\* a provider call for the normalized text fp of session s has failed
FailedBefore(s, fp) ==
    \E i \in 1..Len(translation_results) :
        /\ translation_results[i].session_id = s
        /\ translation_results[i].outcome \in {"none", "raise"}
        /\ _normalize_text(translation_results[i].text) = fp

\* C40: a request whose provider call fails leaves its fingerprint in the
\* dedup set of the session and its time in the throttle table, and every
\* later request of the session with the same normalized text is dropped
\* without a provider call and without a message (the dedup state of the
\* session is not cleared here: the client stays connected).
C40_FailedStaysDeduplicated ==
    /\ [][FailsNow =>
             LET failed == translation_results'[Len(translation_results')]
             IN /\ _normalize_text(failed.text)
                       \in Get(translated_texts', failed.session_id, {})
                /\ failed.session_id \in DOMAIN last_translation_times']_vars
    /\ [][\A t \in DOMAIN task :
             Runs(t) /\ FailedBefore(task[t].session_id, _normalize_text(task[t].text))
                 => DroppedEntirely(t)]_vars

\* --------------------------------------------------------- claims on turns
\* C18: for every Turn of a session, the live_transcript message of the Turn is
\* sent before the translation_update message that the Turn triggers (a Turn
\* is known by its text).
C18_LiveBeforeUpdate ==
    \A i \in 1..Len(sent) :
        sent[i].type = "translation_update" =>
            \E j \in 1..(i - 1) :
                /\ sent[j].type = "live_transcript"
                /\ sent[j].text = sent[i].original_text

\* the listener of p is sending the live_transcript message of a Turn
SendsLive(p) == lst[p].pc = "sending" /\ lst[p].turn # NoMsg

\* C15: the live_transcript message of a Turn carries is_final = (end_of_turn
\* and turn_is_formatted) for every combination of the two flags, also when
\* turn_is_formatted is present in the event with value false.
C15_IsFinalIsBothFlags ==
    \A p \in Providers :
        SendsLive(p) =>
            lst[p].out.is_final
                = (lst[p].turn.end_of_turn /\ lst[p].turn.turn_is_formatted = "true")

\* C16: the translation_status of a live_transcript message is "disabled" when
\* translation is off, "translating" when it is on and end_of_turn is not set,
\* and "ready" when it is on and end_of_turn is set.
C16_TranslationStatus ==
    \A p \in Providers :
        SendsLive(p) =>
            lst[p].out.translation_status
                = IF ~translation_enabled THEN "disabled"
                  ELSE IF ~lst[p].turn.end_of_turn THEN "translating"
                  ELSE "ready"

\* a turn that has ended but is not formatted is "ready"
C16_Witness ==
    \E p \in Providers :
        /\ SendsLive(p)
        /\ translation_enabled
        /\ lst[p].turn.end_of_turn
        /\ lst[p].turn.turn_is_formatted = "absent"
        /\ lst[p].out.translation_status = "ready"

\* the positions of the messages of a type among the messages sent
Positions(type) == {i \in 1..Len(sent) : sent[i].type = type}

\* the client connection of the scenario has left its session
ClientLeft == 1 \notin DOMAIN active_connections

\* at most one live_transcript, final and of the Turn's text, and at most one
\* translation_update, of the same text and after the live_transcript
C19_AtMostOneOfEach ==
    /\ Cardinality(Positions("live_transcript")) <= 1
    /\ Cardinality(Positions("translation_update")) <= 1
    /\ \A i \in Positions("live_transcript") : sent[i].is_final /\ sent[i].text = HelloThere
    /\ \A i \in Positions("translation_update") :
          /\ sent[i].original_text = HelloThere
          /\ \E j \in Positions("live_transcript") : j < i

\* C19: from a session with a connected client, translation enabled and no
\* earlier translation, the Turn "Hello there." with end_of_turn and
\* turn_is_formatted produces exactly one live_transcript with is_final = true
\* and then, eventually, exactly one translation_update of that text.
C19_LiveThenUpdate ==
    /\ []C19_AtMostOneOfEach
    /\ (\E p \in Providers : SendsLive(p)) ~> (Positions("live_transcript") # {})
    /\ (\E p \in Providers : SendsLive(p)) ~> (Positions("translation_update") # {})

\* C19 as the code has it: the translation_update is sent unless the client
\* connection has left the session before translate_text returns.
C19_LiveThenUpdateUnlessLeft ==
    /\ []C19_AtMostOneOfEach
    /\ (\E p \in Providers : SendsLive(p)) ~> (Positions("live_transcript") # {})
    /\ (\E p \in Providers : SendsLive(p))
           ~> (Positions("translation_update") # {} \/ ClientLeft)

\* both messages were sent, to a client that is still connected
C19_Witness ==
    /\ Len(sent) = 2
    /\ sent[1].type = "live_transcript" /\ sent[1].is_final
    /\ sent[2].type = "translation_update" /\ sent[2].original_text = HelloThere
    /\ ~ClientLeft

\* a translation task is created in this step
Spawned == \E t \in DOMAIN task : task[t].pc = "free" /\ task'[t].pc = "spawned"

\* the Turn that the handler of p returns from in this step, NoMsg when it
\* does not: a Turn handled without a send, or the end of the live send
TurnFinished(p) ==
    IF lst[p].pc = "recv" /\ inbox[p].type = "Turn" /\ inbox'[p] = NoMsg /\ lst'[p].pc = "recv"
    THEN inbox[p]
    ELSE IF SendsLive(p) /\ lst'[p].pc = "recv" THEN lst[p].turn
    ELSE NoMsg

Accepted(m) ==
    translation_enabled /\ m.end_of_turn /\ _is_text_complete_enough(Strip(m.transcript))

\* C17: a Turn starts a translation task if and only if translation is
\* enabled, end_of_turn is true and the completeness heuristic accepts the
\* trimmed transcript; the task is created when the handler returns to the
\* receive loop, which does not wait for it.
C17_SpawnsIffAccepted ==
    [][/\ \A p \in Providers :
              TurnFinished(p) # NoMsg => (Spawned <=> Accepted(TurnFinished(p)))
       /\ Spawned => \E p \in Providers : TurnFinished(p) # NoMsg]_vars

\* the next Turn has been handled, and has started its own task, while the
\* translation of the Turn before it is in flight
C17_Witness ==
    /\ task[1].pc = "translating"
    /\ task[2].pc = "spawned"
    /\ \E p \in Providers : lst[p].pc = "recv"

\* ------------------------------------------------- claims on text helpers

Hello == <<"H", "e", "l", "l", "o">>
ThisIsACompleteSentence == <<"T", "h", "i", "s", " ", "i", "s", " ", "a", " ", "c", "o", "m", "p", "l", "e", "t", "e", " ", "s", "e", "n", "t", "e", "n", "c", "e", ".">>
YElEspirituSanto == <<"y", " ", "e", "l", " ", "e", "s", "p", "í", "r", "i", "t", "u", " ", "s", "a", "n", "t", "o">>

\* the call of _is_text_complete_enough that was followed last
Judged == call.function = "_is_text_complete_enough"

TerminalPunctuation == {".", "!", "?", ":"}

\* the rule of the completeness heuristic: at least 5 characters after
\* trimming, and terminal punctuation at the end, or a closing word at the
\* end, or at least 3 words in at least 15 characters
ReferenceRule(text) ==
    LET trimmed == Strip(text)
    IN /\ Len(trimmed) >= 5
       /\ \/ trimmed[Len(trimmed)] \in TerminalPunctuation
          \/ \E closing \in religious_endings : EndsWith(Lower(trimmed), closing)
          \/ Len(Split(trimmed)) >= 3 /\ Len(trimmed) >= 15

\* C35: for every text _is_text_complete_enough returns what the reference
\* rule says: false for a trimmed text that is empty or shorter than 5
\* characters, else true for a text that ends with terminal punctuation or
\* with a closing word or that has at least 3 words and 15 characters, else
\* false; "Hello" and "um wait" are rejected, "This is a complete sentence."
\* and "y el espíritu santo" are accepted.
C35_CompleteAsTheRule ==
    Judged =>
        /\ call.returned[1] = ReferenceRule(call.args[1])
        /\ call.args[1] \in {Hello, UmWait} => ~call.returned[1]
        /\ call.args[1] \in {ThisIsACompleteSentence, YElEspirituSanto} => call.returned[1]

\* a text of 5 characters after trimming, without punctuation, was accepted
\* for its closing word
C35_Witness ==
    /\ Judged
    /\ Len(Strip(call.args[1])) = 5
    /\ call.args[1] # Strip(call.args[1])
    /\ call.returned[1]

\* the call of _calculate_similarity that was followed last
Compared == call.function = "_calculate_similarity"

\* the tokens of a text after normalization
Tokens(text) == Range(Split(_normalize_text(text)))

\* C36: _calculate_similarity is the Jaccard similarity of the normalized
\* token sets of the two texts: 1.0 for two identical raw strings, and 0.0
\* when at least one of two different raw strings has no tokens after
\* normalization, also when both have none.
C36_JaccardOfTokens ==
    Compared =>
        LET a == call.args[1]
            b == call.args[2]
            similarity == call.returned[1]
        IN /\ a = b => similarity[1] = similarity[2]
           /\ a # b /\ (Tokens(a) = {} \/ Tokens(b) = {}) => similarity[1] = 0
           /\ a # b /\ Tokens(a) # {} /\ Tokens(b) # {} =>
                  similarity[1] * Cardinality(Tokens(a) \cup Tokens(b))
                      = Cardinality(Tokens(a) \cap Tokens(b)) * similarity[2]

\* ------------------------------------------------------- specifications
Join ==
    /\ \E s \in Sessions, w \in Conns : add_connection(s, w)
    /\ UNCHANGED <<ended, brVars, extVars>>
Leave ==
    /\ \E s \in Sessions, w \in Conns : remove_connection(s, w)
    /\ UNCHANGED <<ended, brVars, extVars>>
StartBroadcast ==
    /\ \E b \in Broadcasts, s \in Sessions, ex \in Conns \cup {None} : BroadcastStart(b, s, ex)
    /\ UNCHANGED <<brVars, extVars>>
SendOne ==
    /\ \E b \in Broadcasts, ok \in BOOLEAN : BroadcastSend(b, ok)
    /\ UNCHANGED <<brVars, extVars>>
ReturnBroadcast ==
    /\ \E b \in Broadcasts : BroadcastReturn(b)
    /\ UNCHANGED <<brVars, extVars>>

Init ==
    InitRegistry /\ InitBridge /\ InitRefiner /\ api_key_configured /\ translation_enabled

Next == Join \/ Leave \/ StartBroadcast \/ SendOne \/ ReturnBroadcast

\* the Session Registry under join, leave and broadcast
Spec == Init /\ [][Next]_vars

BufJoin ==
    /\ \E s \in Sessions, w \in BufConns : add_connection(s, w) /\ ended' = ended \ {s}
    /\ UNCHANGED <<brVars, extVars>>
BufLeave ==
    /\ \E s \in Sessions, w \in BufConns :
          /\ remove_connection(s, w)
          /\ ended' = IF s \in DOMAIN active_sessions' THEN ended ELSE ended \cup {s}
    /\ UNCHANGED <<brVars, extVars>>
AppendText ==
    /\ \E s \in Sessions, text \in Texts : add_to_text_buffer(s, text)
    /\ UNCHANGED <<brVars, extVars>>
DrainText ==
    /\ \E s \in Sessions : clear_text_buffer(s)
    /\ UNCHANGED <<brVars, extVars>>
AppendTranslation ==
    /\ \E s \in Sessions, text \in Texts : add_to_translation_buffer(s, text)
    /\ UNCHANGED <<brVars, extVars>>
DrainTranslation ==
    /\ \E s \in Sessions : clear_translation_buffer(s)
    /\ UNCHANGED <<brVars, extVars>>
SetBufferTimer ==
    /\ \E s \in Sessions, t \in Timers : set_buffer_timer(s, t)
    /\ UNCHANGED <<brVars, extVars>>
CancelBufferTimer ==
    /\ \E s \in Sessions : cancel_buffer_timer(s)
    /\ UNCHANGED <<brVars, extVars>>
SetTranslationTimer ==
    /\ \E s \in Sessions, t \in Timers : set_translation_timer(s, t)
    /\ UNCHANGED <<brVars, extVars>>
CancelTranslationTimer ==
    /\ \E s \in Sessions : cancel_translation_timer(s)
    /\ UNCHANGED <<brVars, extVars>>
Fire ==
    /\ \E t \in Timers : TimerFires(t)
    /\ UNCHANGED <<brVars, extVars>>

NextBuffers ==
    \/ BufJoin \/ BufLeave
    \/ AppendText \/ DrainText \/ AppendTranslation \/ DrainTranslation
    \/ SetBufferTimer \/ CancelBufferTimer \/ SetTranslationTimer \/ CancelTranslationTimer
    \/ Fire

\* the Session Registry's buffers and timers under join and leave
BufferSpec == Init /\ [][NextBuffers]_vars

\* the number of fragments that the sessions in keys have in history h
RECURSIVE Total(_, _)
Total(h, keys) ==
    IF keys = {} THEN 0
    ELSE LET k == CHOOSE x \in keys : TRUE IN Len(h[k]) + Total(h, keys \ {k})

\* the fragments appended to the buffers and not yet returned by a drain
Outstanding ==
    Total(appended["text"], DOMAIN appended["text"])
    + Total(appended["translation"], DOMAIN appended["translation"])

\* an append is noted; the result of an earlier drain is with its caller by now
NoteAppend(kind, s, text) ==
    /\ appended' = [appended EXCEPT ![kind] = DictSet(@, s, Append(Get(@, s, <<>>), text))]
    /\ drained' = [kind |-> "none", session_id |-> None, text |-> <<>>, fragments |-> <<>>]

NoteDrain(kind, s, text) ==
    /\ appended' = [appended EXCEPT ![kind] = DictSet(@, s, <<>>)]
    /\ drained' = [kind |-> kind, session_id |-> s, text |-> text,
                   fragments |-> Get(appended[kind], s, <<>>)]

TextAppend ==
    /\ Outstanding < MaxFragments
    /\ \E s \in Sessions, text \in Fragments :
          add_to_text_buffer(s, text) /\ NoteAppend("text", s, text)
    /\ UNCHANGED <<brVars, sent, rfVars, trVars, chVars, call>>
TextDrain ==
    /\ \E s \in Sessions :
          clear_text_buffer(s) /\ NoteDrain("text", s, clear_text_buffer_returns(s))
    /\ UNCHANGED <<brVars, sent, rfVars, trVars, chVars, call>>
TranslationAppend ==
    /\ Outstanding < MaxFragments
    /\ \E s \in Sessions, text \in Fragments :
          add_to_translation_buffer(s, text) /\ NoteAppend("translation", s, text)
    /\ UNCHANGED <<brVars, sent, rfVars, trVars, chVars, call>>
TranslationDrain ==
    /\ \E s \in Sessions :
          clear_translation_buffer(s)
          /\ NoteDrain("translation", s, clear_translation_buffer_returns(s))
    /\ UNCHANGED <<brVars, sent, rfVars, trVars, chVars, call>>

NextText == TextAppend \/ TextDrain \/ TranslationAppend \/ TranslationDrain

\* tasks that append to and drain the buffers of the sessions, in any order
TextSpec == Init /\ [][NextText]_vars

NextTimers ==
    \/ BufJoin \/ BufLeave
    \/ SetBufferTimer \/ CancelBufferTimer \/ SetTranslationTimer \/ CancelTranslationTimer
    \/ Fire

\* the Session Registry's timers under join, leave, set, cancel and expiry
TimerSpec == Init /\ [][NextTimers]_vars

otherVars == <<regVars, bufVars, ended, extVars>>

\* the bridge's actions over the clients CS, session keys SS, provider
\* connections PS and translation tasks TS of a specification
Connect(CS, SS) == (\E c \in CS, s \in SS : ClientConnect(c, s)) /\ UNCHANGED otherVars
Setup(CS, PS) ==
    (\E c \in CS, ok \in BOOLEAN, p \in PS : SetupDone(c, ok, p)) /\ UNCHANGED otherVars
Welcome(CS) == (\E c \in CS, ok \in BOOLEAN : WelcomeDone(c, ok)) /\ UNCHANGED otherVars
ErrorSent(CS) == (\E c \in CS : SendErrorDone(c)) /\ UNCHANGED otherVars
ReceiveAudio(CS) ==
    (\E c \in CS, event \in {"small_chunk", "chunk", "disconnect", "error"} : Receive(c, event))
    /\ UNCHANGED otherVars
Forward(CS) == (\E c \in CS : ForwardDone(c)) /\ UNCHANGED otherVars
AudioError(CS) == (\E c \in CS : AudioErrorDone(c)) /\ UNCHANGED otherVars
CleanupSend(CS) == (\E c \in CS : CleanupSendDone(c)) /\ UNCHANGED otherVars
CleanupClose(CS) ==
    (\E c \in CS, ok \in BOOLEAN : CleanupCloseDone(c, ok)) /\ UNCHANGED otherVars
ProviderClose(PS) == (\E p \in PS : ProviderCloses(p)) /\ UNCHANGED otherVars
ProviderEvent(PS) ==
    (\E p \in PS, m \in BridgeMessages : ProviderSends(p, m)) /\ UNCHANGED otherVars
ListenerEnd(PS) == (\E p \in PS : ListenerEnds(p)) /\ UNCHANGED otherVars
Handle(PS) == (\E p \in PS : ListenerHandles(p)) /\ UNCHANGED otherVars
LiveSent(PS) == (\E p \in PS : ListenerSent(p)) /\ UNCHANGED otherVars
StartTranslation(TS) == (\E t \in TS : TranslateStart(t)) /\ UNCHANGED otherVars
TranslationReturns(TS) ==
    (\E t \in TS, outcome \in {"text", "none", "raise"} : TranslateReturns(t, outcome))
    /\ UNCHANGED otherVars
TranslationSent(TS) == (\E t \in TS : TranslateSent(t)) /\ UNCHANGED otherVars
TimePasses == Tick /\ UNCHANGED otherVars

\* client endpoints and provider connections, with a silent provider
NextConnect(CS, SS, PS) ==
    \/ Connect(CS, SS) \/ Setup(CS, PS) \/ Welcome(CS) \/ ErrorSent(CS)
    \/ ReceiveAudio(CS) \/ Forward(CS) \/ AudioError(CS)
    \/ CleanupSend(CS) \/ CleanupClose(CS)
    \/ ProviderClose(PS) \/ ListenerEnd(PS)

\* the provider's events and the listener that handles them
NextListen(PS) == ProviderEvent(PS) \/ Handle(PS) \/ LiveSent(PS)

NextTranslate(TS) ==
    StartTranslation(TS) \/ TranslationReturns(TS) \/ TranslationSent(TS) \/ TimePasses

InitConnect == InitRegistry /\ InitBridge /\ InitRefiner /\ ~translation_enabled

\* several clients on the same session keys, connecting at the same time
ConnectSpec == InitConnect /\ [][NextConnect(Clients, BridgeSessions, Providers)]_vars

\* one client endpoint and its audio
AudioSpec == InitConnect /\ [][NextConnect(LoneClients, BridgeSessions, LoneProviders)]_vars

NextLive ==
    NextConnect(Clients, LoneSessions, LoneProviders) \/ NextListen(LoneProviders)

InitLive == InitConnect /\ api_key_configured = TRUE

\* several viewers of one session and the provider's events, translation off
LiveSpec == InitLive /\ [][NextLive]_vars

NextBridge ==
    \/ NextConnect(LoneClients, BridgeSessions, LoneProviders)
    \/ NextListen(LoneProviders)
    \/ NextTranslate(Tasks)

\* the messages that clients were sent, oldest first, up to MaxSent of them
Logged(message) == IF Len(sent) < MaxSent THEN Append(sent, message) ELSE sent

otherButSent == <<regVars, bufVars, ended, drained, appended, rfVars, trVars, chVars, call>>

LiveSentLogged(PS) ==
    /\ \E p \in PS :
          /\ ListenerSent(p)
          /\ sent' = IF lst[p].turn # NoMsg THEN Logged(lst[p].out) ELSE sent
    /\ UNCHANGED otherButSent

TranslationSentLogged(TS) ==
    /\ \E t \in TS : TranslateSent(t) /\ sent' = Logged(task[t].out)
    /\ UNCHANGED otherButSent

Disconnect(CS) == (\E c \in CS : Receive(c, "disconnect")) /\ UNCHANGED otherVars

\* translation requests for the sessions of the connected clients
Request(TS, texts) ==
    /\ \E t \in TS, s \in DOMAIN active_connections, text \in texts :
          RequestTranslation(t, s, text)
    /\ UNCHANGED otherVars

otherButRequests ==
    <<regVars, bufVars, ended, drained, appended, sent, rfVars, chVars, call, translation_done_at,
      _translation_cache, tc, last_lookup, translation_results>>

\* what became of the request of task t in the step that ran it
Became(t) ==
    IF task'[t].pc = "translating" THEN "called"
    ELSE IF Throttled(task[t].session_id) THEN "throttled"
    ELSE "duplicate"

StartTranslationNoted(TS) ==
    /\ Len(translation_requests) < MaxRequests
    /\ \E t \in TS :
          /\ TranslateStart(t)
          /\ translation_requests' =
                 Append(translation_requests,
                        [session_id |-> task[t].session_id,
                         text |-> _normalize_text(task[t].text),
                         at |-> clock, outcome |-> Became(t)])
    /\ UNCHANGED otherButRequests

TranslationReturnsNoted(TS) ==
    /\ \E t \in TS, outcome \in {"text", "none", "raise"} :
          /\ TranslateReturns(t, outcome)
          /\ translation_done_at' = DictSet(translation_done_at, task[t].session_id, clock)
    /\ UNCHANGED <<regVars, bufVars, ended, drained, appended, sent, rfVars, chVars, call,
                   translation_requests, _translation_cache, tc, last_lookup,
                   translation_results>>

\* the same step, the end of the call kept with the request's text
TranslationReturnsRecorded(TS) ==
    /\ \E t \in TS, outcome \in {"text", "none", "raise"} :
          /\ TranslateReturns(t, outcome)
          /\ translation_results' =
                 Append(translation_results,
                        [session_id |-> task[t].session_id, text |-> task[t].text,
                         outcome |-> outcome,
                         connected |-> HasConnection(task[t].session_id)])
    /\ UNCHANGED <<regVars, bufVars, ended, drained, appended, sent, rfVars, chVars, call,
                   translation_requests, translation_done_at, _translation_cache, tc,
                   last_lookup>>

\* the dedup set of the session is about to reach its cap
InitCapped ==
    /\ InitRegistry /\ InitRefiner
    /\ \E n \in {DedupCap - 1, DedupCap} : ConnectedAfter(n)
    /\ translation_enabled

\* the translation requests that fill the set, and the clock
NextCapped ==
    \/ Request(TurnTasks, {HelloThere, GraceToYou}) \/ StartTranslation(TurnTasks)
    \/ TranslationReturns(TurnTasks) \/ TranslationSent(TurnTasks)
    \/ TimePasses

CappedSpec == InitCapped /\ [][NextCapped]_vars

otherButCache ==
    <<regVars, bufVars, ended, brVars, drained, appended, sent, rfVars, chVars, call, translation_requests,
      translation_done_at, translation_results>>

Lookup(KS) ==
    (\E k \in KS, cache_key \in CacheKeys : translate_text(k, cache_key))
    /\ UNCHANGED <<otherButCache, last_lookup>>
LookupReturns(KS) ==
    (\E k \in KS, valid \in BOOLEAN : TranslateTextReturns(k, valid))
    /\ UNCHANGED <<otherButCache, last_lookup>>

\* the translate_text calls of the tasks of all sessions
NextCache == Lookup(Lookups) \/ LookupReturns(Lookups)

\* the cache is one entry short of its maximum, or has reached it
InitCache ==
    /\ InitRegistry /\ InitRefiner /\ BridgeAtStart
    /\ \E n \in {CacheMax - 1, CacheMax} : TranslatorHaving([i \in 1..n |-> i])
    /\ api_key_configured /\ translation_enabled

CacheSpec == InitCache /\ [][NextCache]_vars

\* the call of translate_text that is followed
FirstLookup == {1}

LookupText(KS) ==
    (\E k \in KS, text \in LookupTexts, pair \in LanguagePairs :
        TranslateTextCalled(k, text, pair[1], pair[2]))
    /\ UNCHANGED otherButCache
LookupTextReturns(KS) ==
    (\E k \in KS, valid \in BOOLEAN : TranslateTextReturns(k, valid))
    /\ UNCHANGED <<otherButCache, last_lookup>>

\* translate_text called with texts and language pairs, one call at a time
NextLookup == LookupText(FirstLookup) \/ LookupTextReturns(FirstLookup)

\* the cache is empty or holds the result of one earlier call
InitLookup ==
    /\ InitRegistry /\ InitRefiner /\ BridgeAtStart
    /\ \E cache \in {<<>>} \cup {<<CacheKey(text, pair[1], pair[2])>> :
                                    text \in {NineWords, TenWords, ElevenWords},
                                    pair \in LanguagePairs} :
          TranslatorHaving(cache)
    /\ api_key_configured /\ translation_enabled

LookupSpec == InitLookup /\ [][NextLookup]_vars

\* the translation requests of a connected client's session and the clock
NextThrottle ==
    \/ Request(TurnTasks, {HelloThere, GraceToYou}) \/ StartTranslationNoted(TurnTasks)
    \/ TranslationReturnsNoted(TurnTasks) \/ TranslationSentLogged(TurnTasks)
    \/ TimePasses

InitThrottle == InitRegistry /\ InitConnected /\ InitRefiner /\ translation_enabled

ThrottleSpec == InitThrottle /\ [][NextThrottle]_vars

\* the same requests when the dedup set of the session is about to reach its cap
ResubmitSpec == InitCapped /\ [][NextThrottle]_vars

\* the same requests, the end of every provider call kept with its text
NextFailure ==
    \/ Request(TurnTasks, {HelloThere, GraceToYou}) \/ StartTranslationNoted(TurnTasks)
    \/ TranslationReturnsRecorded(TurnTasks) \/ TranslationSentLogged(TurnTasks)
    \/ TimePasses

FailureSpec == InitCapped /\ [][NextFailure]_vars

\* the same below the cap of the dedup set
UncappedFailureSpec == InitThrottle /\ [][NextFailure]_vars

otherButChats == <<regVars, bufVars, ended, drained, appended, sent, rfVars, trVars, call>>

StreamStarts(TS) ==
    (\E t \in TS : translate_stream(t)) /\ UNCHANGED <<brVars, otherButChats>>
SystemPromptReturns(TS) ==
    (\E t \in TS, ok \in BOOLEAN : SystemPromptDone(t, ok)) /\ UNCHANGED <<brVars, otherButChats>>
PromptReturns(TS) ==
    (\E t \in TS, result \in {"text", "none"} : PromptDone(t, result))
    /\ UNCHANGED <<brVars, otherButChats>>

\* translate_text returns what the stream of the provider has yielded
TranslationReturnsStream(TS) ==
    /\ \E t \in TS :
          /\ gm[t].pc = "done"
          /\ TranslateReturns(t, gm[t].result)
          /\ gm' = [gm EXCEPT ![t] = NoStream]
    /\ UNCHANGED <<_chats, otherButChats>>

\* the translation requests of a connected client's session with the calls
\* of the Gemini provider they make, until the client leaves
NextChat ==
    \/ Request(TurnTasks, {HelloThere, GraceToYou}) \/ StartTranslation(TurnTasks)
    \/ StreamStarts(TurnTasks) \/ SystemPromptReturns(TurnTasks) \/ PromptReturns(TurnTasks)
    \/ TranslationReturnsStream(TurnTasks) \/ TranslationSent(TurnTasks)
    \/ TimePasses
    \/ Disconnect(LoneClients) \/ CleanupSend(LoneClients) \/ CleanupClose(LoneClients)

ChatSpec == InitThrottle /\ [][NextChat]_vars

\* two clients have joined session 1, the second after the first had set up
\* the provider connection
InitShared ==
    /\ InitRegistry /\ InitRefiner
    /\ JoinedHaving({1, 2}, 2, NoMsg, EmptyDict, EmptyDict)
    /\ translation_enabled

\* the clients of the key leave, while the translation requests of the key
\* run up to the translation_update of each
NextShared ==
    \/ Disconnect(Clients) \/ CleanupSend(Clients) \/ CleanupClose(Clients)
    \/ Request(Tasks, {HelloThere, GraceToYou}) \/ StartTranslationNoted(Tasks)
    \/ TranslationReturnsRecorded(Tasks) \/ TranslationSentLogged(Tasks)
    \/ TimePasses

SharedSpec == InitShared /\ [][NextShared]_vars

\* translate_text returns, and the event loop resumes the task whose send
\* has ended
FairSharedSpec ==
    /\ SharedSpec
    /\ WF_vars(TranslationReturnsRecorded(Tasks))
    /\ WF_vars(TranslationSentLogged(Tasks))

\* one client endpoint that sends no audio and may leave and join again, its
\* provider connection and the messages it is sent, translation on
NextOrder ==
    \/ Connect(LoneClients, LoneSessions) \/ Setup(LoneClients, LoneProviders)
    \/ Welcome(LoneClients) \/ ErrorSent(LoneClients) \/ Disconnect(LoneClients)
    \/ CleanupSend(LoneClients) \/ CleanupClose(LoneClients)
    \/ ProviderClose(LoneProviders) \/ ListenerEnd(LoneProviders)
    \/ ProviderEvent(LoneProviders) \/ Handle(LoneProviders) \/ LiveSentLogged(LoneProviders)
    \/ StartTranslation(Tasks) \/ TranslationReturns(Tasks) \/ TranslationSentLogged(Tasks)
    \/ TimePasses

OrderSpec == Init /\ [][NextOrder]_vars

\* the end-to-end scenario: the client is connected, translation is on and
\* the provider has sent one final, formatted Turn and sends no other
InitScenario ==
    /\ InitRegistry /\ ConnectedWith(Turn(HelloThere, TRUE, "true")) /\ InitRefiner
    /\ translation_enabled

NextScenario ==
    \/ Handle(LoneProviders) \/ LiveSentLogged(LoneProviders)
    \/ StartTranslation(TurnTasks) \/ TranslationReturns(TurnTasks)
    \/ TranslationSentLogged(TurnTasks) \/ TimePasses
    \/ ReceiveAudio(LoneClients) \/ Forward(LoneClients) \/ AudioError(LoneClients)
    \/ ErrorSent(LoneClients) \/ CleanupSend(LoneClients) \/ CleanupClose(LoneClients)
    \/ ProviderClose(LoneProviders) \/ ListenerEnd(LoneProviders)

ScenarioSpec == InitScenario /\ [][NextScenario]_vars

\* the event loop runs every task that is ready, and the translation
\* provider answers every call
FairScenarioSpec ==
    /\ ScenarioSpec
    /\ WF_vars(Handle(LoneProviders))
    /\ WF_vars(LiveSentLogged(LoneProviders))
    /\ WF_vars(StartTranslation(TurnTasks))
    /\ WF_vars(TranslationReturns(TurnTasks))
    /\ WF_vars(TranslationSentLogged(TurnTasks))

\* the start of its latest provider call, kept for each key
NoteCalls ==
    refine_called_at' =
        IF \E r \in Refines : rf[r].pc # "calling" /\ rf'[r].pc = "calling"
        THEN LET r == CHOOSE q \in Refines : rf[q].pc # "calling" /\ rf'[q].pc = "calling"
             IN DictSet(refine_called_at, rf'[r].session_id, clock)
        ELSE refine_called_at

refineOther ==
    <<brVars, drained, appended, sent, paragraphizer_provider, trVars, chVars, call>>

\* the seconds that a 429 response asks to wait: the number of its Retry-After
\* header, and the configured backoff where the header gives none
Advertised(retry_after) ==
    CASE retry_after = "-1" -> 0 - 1
      [] retry_after = "0" -> 0
      [] retry_after = "1" -> 1
      [] OTHER -> PARAGRAPHIZER_RETRY_BACKOFF_SECONDS

\* the provider's latest answer to the request of r, until the request ends:
\* a text, or a 429 response and the time at which its Retry-After is over
NoteLimit(r, answer) ==
    last_answer' =
        IF rf[r].pc = "calling" /\ answer.outcome = "rate_limited"
        THEN [last_answer EXCEPT ![r] = [answer |-> "rate_limited",
                                         due |-> clock + Advertised(answer.retry_after)]]
        ELSE IF rf'[r].pc = "broadcasting"
        THEN [last_answer EXCEPT ![r].answer = "text"]
        ELSE IF rf[r].pc = "idle" \/ rf'[r].pc = "idle"
        THEN [last_answer EXCEPT ![r] = NoAnswer]
        ELSE last_answer

RefineArrives(RS) ==
    /\ \E r \in RS, s \in Sessions, has_text \in BOOLEAN,
          answer \in ProviderAnswers(paragraphizer_provider) :
          /\ RefineRequest(r, s, has_text, answer)
          /\ NoteLimit(r, answer)
    /\ UNCHANGED refineOther
RefineWake(RS) ==
    /\ \E r \in RS, answer \in ProviderAnswers(paragraphizer_provider) :
          /\ RefineWakes(r, answer)
          /\ NoteLimit(r, answer)
    /\ UNCHANGED refineOther
RefineReturn(RS) ==
    /\ \E r \in RS, answer \in ProviderAnswers(paragraphizer_provider) :
          /\ RefineReturns(r, answer)
          /\ NoteLimit(r, answer)
    /\ UNCHANGED refineOther
RefineBroadcastEnds(RS) ==
    /\ \E r \in RS :
          /\ RefineBroadcastDone(r)
          /\ NoteLimit(r, [outcome |-> "none", retry_after |-> "absent"])
    /\ UNCHANGED refineOther

\* refine requests of a session, its viewers and the clock
NextRefine ==
    \/ RefineArrives(Refines) /\ NoteCalls
    \/ RefineWake(Refines) /\ NoteCalls
    \/ RefineReturn(Refines) /\ UNCHANGED refine_called_at
    \/ RefineBroadcastEnds(Refines) /\ UNCHANGED refine_called_at
    \/ Join \/ Leave \/ SendOne \/ TimePasses

InitRefine ==
    /\ InitRegistry /\ InitBridge /\ InitRefinerWith(RefineProviders)
    /\ api_key_configured /\ translation_enabled

RefineSpec == InitRefine /\ [][NextRefine]_vars

\* the refine requests that one caller makes one after the other, a viewer
\* of the session and the clock
NextRetry ==
    \/ RefineArrives(LoneRefines) /\ UNCHANGED refine_called_at
    \/ RefineWake(LoneRefines) /\ UNCHANGED refine_called_at
    \/ RefineReturn(LoneRefines) /\ UNCHANGED refine_called_at
    \/ RefineBroadcastEnds(LoneRefines) /\ UNCHANGED refine_called_at
    \/ SendOne \/ TimePasses

\* no session has a viewer, or one session has the viewer that joined it
InitRetry ==
    /\ \/ InitRegistry
       \/ \E s \in Sessions, w \in BufConns :
             /\ active_sessions = DictSet(EmptyDict, s, {w})
             /\ session_metadata = DictSet(EmptyDict, s, [paragraph_counter |-> 0])
             /\ session_text_buffers = DictSet(EmptyDict, s, <<>>)
             /\ bc = [b \in Broadcasts |-> IdleBroadcast]
             /\ session_buffer_timers = EmptyDict
             /\ translation_buffers = EmptyDict
             /\ translation_timers = EmptyDict
             /\ timerState = [t \in Timers |-> "new"]
             /\ ended = {}
             /\ drained = [kind |-> "none", session_id |-> None, text |-> <<>>,
                           fragments |-> <<>>]
             /\ appended = [kind \in {"text", "translation"} |-> EmptyDict]
    /\ InitBridge /\ InitRefinerWith(RefineProviders)
    /\ api_key_configured /\ translation_enabled

RetrySpec == InitRetry /\ [][NextRetry]_vars

\* one refine request whose provider call (http or LeMUR) is in flight, and
\* no other request
InitOneRequest ==
    /\ InitRegistry /\ InitBridge
    /\ api_key_configured /\ translation_enabled
    /\ paragraphizer_last_call_at = EmptyDict
    /\ \E r \in LoneRefines, s \in Sessions :
          rf = [q \in Refines |->
                   IF q = r
                   THEN [pc |-> "calling", session_id |-> s, has_text |-> TRUE,
                         now |-> 0, wake |-> 0]
                   ELSE IdleRefine]
    /\ refine_called_at = EmptyDict
    /\ last_answer = [r \in Refines |-> NoAnswer]
    /\ paragraphizer_provider \in RefineProviders \ {"gemini"}

RetryWakes == RefineWake(LoneRefines) /\ UNCHANGED refine_called_at
RetryReturns == RefineReturn(LoneRefines) /\ UNCHANGED refine_called_at
RetryBroadcastEnds == RefineBroadcastEnds(LoneRefines) /\ UNCHANGED refine_called_at

\* the request, its retries, the viewers of the session and the clock
NextOneRequest ==
    \/ RetryWakes \/ RetryReturns \/ RetryBroadcastEnds
    \/ Join \/ Leave \/ SendOne \/ TimePasses

OneRequestSpec == InitOneRequest /\ [][NextOneRequest]_vars

\* the event loop runs every task that is ready: a provider call returns (the
\* http client has a timeout), a sleep ends when its time has come, a send to
\* a viewer completes, and time passes
FairOneRequestSpec ==
    /\ OneRequestSpec
    /\ WF_vars(RetryWakes)
    /\ WF_vars(RetryReturns)
    /\ WF_vars(RetryBroadcastEnds)
    /\ WF_vars(SendOne)
    /\ WF_vars(TimePasses)

ProviderTurn(PS) ==
    (\E p \in PS, m \in AllTurns : ProviderSends(p, m)) /\ UNCHANGED otherVars

\* the session of a connected client that sends no audio, until it ends: the
\* provider's Turns of every kind, the listener and the translation tasks
NextTurns ==
    \/ ProviderTurn(LoneProviders) \/ Handle(LoneProviders) \/ LiveSent(LoneProviders)
    \/ NextTranslate(TurnTasks)
    \/ Disconnect(LoneClients) \/ CleanupSend(LoneClients) \/ CleanupClose(LoneClients)
    \/ ProviderClose(LoneProviders) \/ ListenerEnd(LoneProviders)

InitTurns == InitRegistry /\ InitConnected /\ InitRefiner

TurnSpec == InitTurns /\ [][NextTurns]_vars

\* every configuration of the API key and of the translation switch
InitAny == InitRegistry /\ InitBridge /\ InitRefiner

\* the words of the texts handed to the text helpers
JudgedWords ==
    <<<<"u", "m">>, <<"w", "a", "i", "t">>, <<"H", "e", "l", "l", "o">>, <<"s", "a", "n", "t", "o">>, <<"A", "m", "é", "n">>, <<"s", "e", "n", "t", "e", "n", "c", "e">>>>

RECURSIVE WordChoices(_)
\* the sequences of n indices of JudgedWords
WordChoices(n) ==
    IF n = 0 THEN {<<>>}
    ELSE {Append(ws, i) : ws \in WordChoices(n - 1), i \in 1..Len(JudgedWords)}

\* up to MaxJudgedWords words, joined by one space, followed by nothing or
\* by a punctuation mark, as they are or padded with a space on both sides;
\* and the texts of the examples
JudgedTexts ==
    LET joined == UNION {{JoinWords([i \in 1..Len(ws) |-> JudgedWords[ws[i]]]) : ws \in WordChoices(n)} :
                         n \in 0..MaxJudgedWords}
        marked == {text \o mark : text \in joined, mark \in {<<>>, <<".">>, <<"?">>, <<",">>}}
    IN marked \cup {<<" ">> \o text \o <<" ">> : text \in marked}
             \cup {Hello, UmWait, ThisIsACompleteSentence, YElEspirituSanto}

\* one call of _is_text_complete_enough is followed
CompleteEnoughCalled ==
    /\ call = NoCall
    /\ \E text \in JudgedTexts :
           call' = [function |-> "_is_text_complete_enough", args |-> <<text>>,
                    returned |-> <<_is_text_complete_enough(text)>>]
    /\ UNCHANGED <<regVars, bufVars, ended, brVars, drained, appended, sent, rfVars, trVars, chVars>>

\* the texts handed to _calculate_similarity
ComparedTexts ==
    {<<>>, <<"o", "h">>, UmWait, Hello, HelloThere, HelloThereAgain, GraceToYou,
     ThisIsACompleteSentence, YElEspirituSanto}

\* one call of _calculate_similarity is followed
SimilarityCalled ==
    /\ call = NoCall
    /\ \E text1 \in ComparedTexts, text2 \in ComparedTexts :
           call' = [function |-> "_calculate_similarity", args |-> <<text1, text2>>,
                    returned |-> <<_calculate_similarity(text1, text2)>>]
    /\ UNCHANGED <<regVars, bufVars, ended, brVars, drained, appended, sent, rfVars, trVars, chVars>>

NextHelper ==
    \/ CompleteEnoughCalled
    \/ SimilarityCalled

\* the text helpers of the bridge, one call in a behaviour
HelperSpec == InitThrottle /\ [][NextHelper]_vars

\* one client endpoint with its provider connection, listener and translation tasks
BridgeSpec == InitAny /\ [][NextBridge]_vars

====
